---- MODULE Spec2Model ----
(***************************************************************************)
(* A model of halvemaan: the GraphQL gateway with its retry policy         *)
(* (halvemaan/graphql.py), the completion oracle of the luigi tasks        *)
(* (halvemaan/base.py, halvemaan/repository.py, halvemaan/pull_request.py) *)
(* and the pagination walkers that fill the id lists of stored documents.  *)
(*                                                                         *)
(* The specifications share the module:                                    *)
(*   SpecGateway  one GraphQLClient.execute_query call at a time           *)
(*   SpecGraph    luigi builds of the repository task chain                *)
(*   SpecWalk     the id-list walkers over the stored pull requests        *)
(*   SpecActor    the actor lookups by id of the tasks of one process      *)
(*   SpecLogin    the actor lookups by login                               *)
(*   SpecEntity   the tasks that store one document per listed child id    *)
(*   SpecRepo     LoadRepositoryTask over the REPOSITORY documents         *)
(*   SpecCommit   LoadCommitsTask of two repositories over one collection  *)
(*   SpecComments LoadCommitCommentsTask over the stored commits           *)
(*   SpecQuery    LoadRepositoriesByQueryTask next to LoadRepositoryTask   *)
(*   SpecSearch   _find_actor_by_login, one user query at a time           *)
(***************************************************************************)
EXTENDS Integers, Sequences, FiniteSets, TLC

VARIABLES
    gwStack,      \* frames of execute_query, innermost last
    gwBudget,     \* the counter the caller passed to execute_query
    gwRequests,   \* requests.post calls made by the current call
    gwShort,      \* time.sleep(60) calls made by the current call
    gwLong,       \* time.sleep(1800) calls made by the current call
    gwOutcome,    \* "idle", "running", "returned" or the exception raised
    gwLast,       \* the last response, the counter of the frame that got it, the sleep that followed
    gwOnlyStatus, \* every response of the current call had a non-200 status
    remoteTotal,  \* pullRequests.totalCount of the remote repository; its pull requests are 1..remoteTotal
    repoDoc,      \* the stored REPOSITORY document, or NoDoc
    prDocs,       \* ids of the stored PULL_REQUEST documents, in insertion order
    repoCache,    \* per task instance: the Repository held by self._repository, or NoDoc
    actorMemo,    \* <<task, key>> pairs memoized by lru_cache in the actor lookups
    status,       \* per task: its state in the current luigi build
    requested,    \* the task handed to luigi.build
    calls,        \* per task: execute_query calls its methods made in the current build
    oracleCalls,  \* execute_query calls made while evaluating run_successful in the current build
    clock,        \* datetime.now(), one tick per build
    fresh,        \* the remote and the process are those of the start of the current build
    repeat,       \* the current build repeats the previous, successful one at once
    snapshot,     \* the stored documents at the start of the current build
    early,        \* in the current build a run() started before the documents of a task it requires were complete
    aborted,      \* the tasks whose run() raised in the current build
    wTask,        \* the id-list task that is modelled
    wTotal,       \* per pull request: the total_X the document declares
    wRemote,      \* per pull request: the number of items the API returns for the relation
    wIds,         \* per pull request: the stored id list
    wMark,        \* per pull request: commit_id_load_status
    wPc,          \* where run() of the task is
    wQueue,       \* the pull requests the for loop has still to visit, current one first
    wAcc,         \* the ids accumulated for the current pull request
    wCursor,      \* the cursor of the next query (0: none)
    wHasNext,     \* has_next_page of the last response
    wFetched,     \* a query was answered for the current pull request
    wRun,         \* the cursors of the pages received for the current pull request in this run
    wSeen,        \* per pull request: the cursors of the pages fetched by runs that were then interrupted
    wBefore,      \* per pull request: the stored id list when the current run started
    aCache,       \* the entries of the lru_cache of the actor lookups: [task, fn, key, actor]
    aQueries,     \* per actor id: the _type_query calls made in this process
    aLast,        \* the last actor lookup: its arguments, the answers it got and its outcome
    eTask,        \* the entity-document task that is modelled
    eIds,         \* per parent document: the stored list of child ids
    eDocs,        \* the ids of the stored child documents
    eRuns,        \* run() calls of the task so far
    eQueries,     \* execute_query calls made for child ids by the last run()
    eRefetched,   \* the child ids the last run() queried while their document was stored
    eRaised,      \* the last run() raised
    rOwner,       \* the owner parameter of the LoadRepositoryTask that is built
    rLogin,       \* owner.login in the answers of the remote API
    rRemote,      \* pullRequests.totalCount in the answers of the remote API
    rDocs,        \* the stored REPOSITORY documents, in insertion order
    rCache,       \* the Repository held by self._repository of the task instance, or NoDoc
    rClock,       \* datetime.now(), one tick per build
    rStatus,      \* the state of the task in the last build
    rBefore,      \* the stored REPOSITORY documents at the start of the last build
    rAsked,       \* the remote totalCount at the time of the last build
    cRefs,        \* per repository: the commit ids its stored pull requests list
    cDocs,        \* the stored COMMIT documents [id, repository_id], in insertion order
    cPc,          \* per repository: where the build of its LoadCommitsTask is
    cUnsaved,     \* per repository: the result of _find_unsaved_commits that run() iterates over
    sPages,       \* the answers of the user search, one per cursor position
    sCursor,      \* user_cursor: the number of pages read (0: None)
    sQueries,     \* the user queries issued by the current call
    sPc,          \* where the call of _find_actor_by_login is
    qMatched,     \* the repositories the search query matches
    qDocs,        \* the repositories that have a stored REPOSITORY document
    qStatus,      \* the state of LoadRepositoriesByQueryTask in the last build
    kIds,         \* per stored commit: the number of ids in its comment_ids
    kDocs,        \* the node ids of the stored COMMIT_COMMENT documents
    kAsked,       \* the node ids the queries of the last run asked for
    kStatus       \* the state of LoadCommitCommentsTask in the last build

gwVars == <<gwStack, gwBudget, gwRequests, gwShort, gwLong, gwOutcome, gwLast, gwOnlyStatus>>

graphVars == <<remoteTotal, repoDoc, prDocs, repoCache, actorMemo, status, requested,
               calls, oracleCalls, clock, fresh, repeat, snapshot, early, aborted>>

walkVars == <<wTask, wTotal, wRemote, wIds, wMark, wPc, wQueue, wAcc, wCursor, wHasNext,
              wFetched, wRun, wSeen, wBefore>>

actVars == <<aCache, aQueries, aLast>>

entVars == <<eTask, eIds, eDocs, eRuns, eQueries, eRefetched, eRaised>>

repVars == <<rOwner, rLogin, rRemote, rDocs, rCache, rClock, rStatus, rBefore, rAsked>>

comVars == <<cRefs, cDocs, cPc, cUnsaved>>

srchVars == <<sPages, sCursor, sQueries, sPc>>

qryVars == <<qMatched, qDocs, qStatus>>

ccVars == <<kIds, kDocs, kAsked, kStatus>>

vars == <<gwVars, graphVars, walkVars, actVars, entVars, repVars, comVars, srchVars, qryVars, ccVars>>

(***************************************************************************)
(* GraphQLClient.execute_query                                             *)
(***************************************************************************)

\* the largest counter a caller passes
MaxCounter == 3

DefaultCounter == 3
ShortSleep == 60
LongSleep == 1800

\* what one requests.post can produce: a 200 body with 'data', a 200 body
\* without 'data' but with 'errors', a 200 body with neither, a non-200
\* status, or a ConnectionError raised by the post itself
ResponseKinds == {"data", "errors", "other", "status", "conn"}

Frame(c, t) == [counter |-> c, inTry |-> t]

Pop(s) == SubSeq(s, 1, Len(s) - 1)

\* a recursive call that spends two retries at once
RetryCounterTwice(c) == IF c >= 2 THEN c - 2 ELSE 0

\* the counter handed to the recursive call
RetryCounter(c) == c - 1

\* a retry that always sleeps the short interval
SleepForShort(kind) == ShortSleep

\* the sleep before the retry of a response that is not a success
SleepFor(kind) == IF kind = "errors" THEN LongSleep ELSE ShortSleep

\* the exception raised when the counter is 0
RaisedFor(kind) ==
    CASE kind = "status" -> "GraphQLStatusException"
      [] kind = "conn" -> "ConnectionError"
      [] OTHER -> "GraphQLException"

\* does the frame catch the exception that its pending recursive call raised:
\* only ConnectionError is caught, and only when the call sits in the try block
Catches(exc, frame) == exc = "ConnectionError" /\ frame.inTry

\* the frame retries: it sleeps and calls execute_query(query, counter - 1),
\* from the try block (inTry) or from the except handler
Retry(stack, c, t, secs) ==
    [stack |-> Append(Pop(stack), Frame(c, t)) \o <<Frame(RetryCounter(c), TRUE)>>,
     outcome |-> "running", slept |-> secs]

\* an exception leaves the innermost frame of stack and travels outwards
RECURSIVE Raise(_, _)
Raise(exc, stack) ==
    IF Len(stack) = 1
    THEN [stack |-> <<>>, outcome |-> exc, slept |-> 0]
    ELSE LET outer == stack[Len(stack) - 1]
             rest == Pop(stack)
         IN IF Catches(exc, outer)
            THEN IF outer.counter # 0
                 THEN Retry(rest, outer.counter, FALSE, ShortSleep)
                 ELSE Raise(exc, rest)
            ELSE Raise(exc, rest)

\* the innermost frame receives a response of the given kind
Handle(kind, stack) ==
    LET c == stack[Len(stack)].counter
    IN CASE kind = "data" -> [stack |-> <<>>, outcome |-> "returned", slept |-> 0]
         [] kind = "conn" -> IF c # 0
                             THEN Retry(stack, c, FALSE, ShortSleep)
                             ELSE Raise(RaisedFor(kind), stack)
         [] OTHER -> IF c # 0
                     THEN Retry(stack, c, TRUE, SleepFor(kind))
                     ELSE Raise(RaisedFor(kind), stack)

\* a caller invokes execute_query(query, counter)
ExecuteQuery(counter) ==
    /\ gwOutcome # "running"
    /\ gwStack' = <<Frame(counter, TRUE)>>
    /\ gwBudget' = counter
    /\ gwRequests' = 0
    /\ gwShort' = 0
    /\ gwLong' = 0
    /\ gwOutcome' = "running"
    /\ gwLast' = [kind |-> "none", counter |-> 0, slept |-> 0]
    /\ gwOnlyStatus' = TRUE
    /\ UNCHANGED <<graphVars, walkVars, actVars, entVars, repVars, comVars, srchVars, qryVars, ccVars>>

\* the innermost frame posts the query and acts on what comes back, up to
\* the next post or the end of the call
Post(kind) ==
    /\ gwOutcome = "running"
    /\ LET r == Handle(kind, gwStack)
       IN /\ gwStack' = r.stack
          /\ gwOutcome' = r.outcome
          /\ gwShort' = gwShort + (IF r.slept = ShortSleep THEN 1 ELSE 0)
          /\ gwLong' = gwLong + (IF r.slept = LongSleep THEN 1 ELSE 0)
          /\ gwLast' = [kind |-> kind, counter |-> gwStack[Len(gwStack)].counter,
                        slept |-> r.slept]
    /\ gwRequests' = gwRequests + 1
    /\ gwOnlyStatus' = (gwOnlyStatus /\ kind = "status")
    /\ UNCHANGED gwBudget
    /\ UNCHANGED <<graphVars, walkVars, actVars, entVars, repVars, comVars, srchVars, qryVars, ccVars>>

GwNext ==
    \/ \E counter \in 0..MaxCounter : ExecuteQuery(counter)
    \/ \E kind \in ResponseKinds : Post(kind)

GwDone == gwOutcome \notin {"idle", "running"}

\* C1: when every attempt of a call returns a non-200 status, the call makes
\* at most counter + 1 requests, sleeps 60 s (never 1800 s) before each
\* retry, and ends by raising GraphQLStatusException after exactly
\* counter + 1 requests and counter sleeps.
C1_StatusBackoffBounded ==
    (gwOutcome # "idle" /\ gwOnlyStatus) =>
        /\ gwRequests <= gwBudget + 1
        /\ gwLong = 0
        /\ gwOutcome = "running" => gwShort = gwRequests
        /\ gwOutcome # "running" =>
              /\ gwOutcome = "GraphQLStatusException"
              /\ gwRequests = gwBudget + 1
              /\ gwShort = gwBudget

C1_Witness ==
    /\ gwOnlyStatus
    /\ gwBudget = DefaultCounter
    /\ gwOutcome = "GraphQLStatusException"
    /\ gwRequests = 4
    /\ gwShort = 3

C3_ConnectionErrorReraised ==
    gwLast.kind = "conn" =>
        IF gwLast.counter # 0
        THEN gwOutcome = "running" /\ gwLast.slept = ShortSleep
        ELSE gwOutcome = "ConnectionError"

\* C4: a 200 body without 'data' is retried after 1800 s when it carries
\* 'errors' and after 60 s when it does not; at counter 0 both raise
\* GraphQLException; the call returns only on a 200 body with 'data'.
C4_NoDataHandling ==
    /\ (gwLast.kind = "errors" /\ gwLast.counter # 0) =>
          (gwOutcome = "running" /\ gwLast.slept = LongSleep)
    /\ (gwLast.kind = "other" /\ gwLast.counter # 0) =>
          (gwOutcome = "running" /\ gwLast.slept = ShortSleep)
    /\ (gwLast.kind \in {"errors", "other"} /\ gwLast.counter = 0) =>
          gwOutcome = "GraphQLException"
    /\ gwOutcome = "returned" => gwLast.kind = "data"

C4_Witness ==
    /\ gwOutcome = "GraphQLException"
    /\ gwLast.kind = "other"
    /\ gwLong > 0
    /\ gwShort > 0

(***************************************************************************)
(* The task chain LoadRepositoryTask <- LoadRepositoryPullRequestIdsTask   *)
(* <- LoadPullRequestsTask, its completion oracle and luigi's build        *)
(***************************************************************************)

\* the remote repository holds at most MaxPR pull requests
MaxPR == 2
\* pull requests per page of the pull-request id query
PageSize == 2
\* builds per behaviour
MaxClock == 3
\* the run of a task may be made to fail at its 1st .. MaxFailAt-th query
MaxFailAt == 3

LRT == "LoadRepositoryTask"
LRPT == "LoadRepositoryPullRequestIdsTask"
LPRT == "LoadPullRequestsTask"

Tasks == {LRT, LRPT, LPRT}

Requires(t) ==
    CASE t = LRT -> <<>>
      [] t = LRPT -> <<LRT>>
      [] t = LPRT -> <<LRPT>>

NoDoc == [exists |-> FALSE]

\* Repository.parse_dictionary of what find_one returned: a copy of the
\* fields the tasks read
ParseDictionary(doc) ==
    IF doc.exists THEN [exists |-> TRUE, total |-> doc.total, ids |-> doc.ids] ELSE NoDoc

\* the repository property: the stored document is read until one is found,
\* and the first one found is kept for the life of the task instance
GetRepository(t, m) ==
    IF m.cache[t].exists THEN m ELSE [m EXCEPT !.cache[t] = ParseDictionary(repoDoc)]

\* k calls of graph_ql_client.execute_query made by methods of task t
Called(t, m, k) == [m EXCEPT !.n[t] = @ + k]

Total(n) == n[LRT] + n[LRPT] + n[LPRT]

\* LoadRepositoryTask._get_expected_results: the remote totalCount
ExpectedLRT(m) == [value |-> remoteTotal, m |-> Called(LRT, m, 1)]

\* _get_expected_results() and _get_actual_results() of task t, evaluated once
Results(t, m) ==
    CASE t = LRT ->
           LET e == ExpectedLRT(m)
               m1 == GetRepository(t, e.m)
           IN [err |-> FALSE, expected |-> e.value,
               actual |-> IF m1.cache[t].exists THEN m1.cache[t].total ELSE 0, m |-> m1]
      [] t = LRPT ->
           LET m1 == GetRepository(t, m)
           IN IF ~m1.cache[t].exists
              THEN [err |-> TRUE, expected |-> 0, actual |-> 0, m |-> m1]
              ELSE [err |-> FALSE, expected |-> m1.cache[t].total,
                    actual |-> Len(repoDoc.ids), m |-> m1]
      [] t = LPRT ->
           LET m1 == GetRepository(t, m)
           IN IF ~m1.cache[t].exists
              THEN [err |-> TRUE, expected |-> 0, actual |-> 0, m |-> m1]
              ELSE [err |-> FALSE, expected |-> Len(m1.cache[t].ids),
                    actual |-> Len(prDocs), m |-> m1]

\* a run_successful() that does not ask the required tasks
RequiredUnasked(items, m) == [ok |-> TRUE, err |-> FALSE, m |-> m]

\* GitMongoTask.run_successful: every required task is asked twice (once for
\* the log line, once for the test), then the task's own counts are computed
\* twice (once for the log line, once for the comparison)
RECURSIVE RunSuccessful(_, _)
RECURSIVE RequiredSuccessful(_, _)
RequiredSuccessful(items, m) ==
    IF items = <<>>
    THEN [ok |-> TRUE, err |-> FALSE, m |-> m]
    ELSE LET r1 == RunSuccessful(Head(items), m)
             r2 == RunSuccessful(Head(items), r1.m)
         IN IF r1.err THEN r1
            ELSE IF r2.err \/ ~r2.ok THEN r2
            ELSE RequiredSuccessful(Tail(items), r2.m)

RunSuccessful(t, m) ==
    LET req == RequiredSuccessful(Requires(t), m)
        a == Results(t, req.m)
        b == Results(t, a.m)
    IN IF req.err \/ ~req.ok THEN req
       ELSE IF a.err THEN [ok |-> FALSE, err |-> TRUE, m |-> a.m]
       ELSE [ok |-> b.expected = b.actual, err |-> FALSE, m |-> b.m]

\* luigi's worker adds the requested task: a task whose complete() is true is
\* recorded as complete and its requirements are not looked at; one whose
\* complete() is false is pending and its requirements are added in turn; one
\* whose complete() raises is not scheduled
RECURSIVE Schedule(_, _, _)
Schedule(ts, st, m) ==
    IF ts = <<>>
    THEN [status |-> st, m |-> m]
    ELSE LET t == Head(ts)
             r == RunSuccessful(t, m)
         IN IF st[t] # "none" THEN Schedule(Tail(ts), st, m)
            ELSE IF r.err THEN Schedule(Tail(ts), [st EXCEPT ![t] = "failed"], r.m)
            ELSE IF r.ok THEN Schedule(Tail(ts), [st EXCEPT ![t] = "complete"], r.m)
            ELSE Schedule(Tail(ts) \o Requires(t), [st EXCEPT ![t] = "pending"], r.m)

\* a worker that calls run() without asking the required tasks
CheckDepsSkipped(items, m) == [ok |-> TRUE, err |-> FALSE, m |-> m]

\* luigi's worker, before it calls run(): complete() of every required task
RECURSIVE CheckDeps(_, _)
CheckDeps(items, m) ==
    IF items = <<>>
    THEN [ok |-> TRUE, err |-> FALSE, m |-> m]
    ELSE LET r == RunSuccessful(Head(items), m)
         IN IF r.err \/ ~r.ok THEN r ELSE CheckDeps(Tail(items), r.m)

Runnable(t) ==
    /\ status[t] = "pending"
    /\ \A i \in 1..Len(Requires(t)) : status[Requires(t)[i]] \in {"complete", "ran"}

Active == \E t \in Tasks : Runnable(t)

Succeeded ==
    /\ requested \in Tasks
    /\ ~Active
    /\ \A t \in Tasks : status[t] \in {"none", "complete", "ran"}

\* a run() that removes the stored documents when it raises
OutcomeRolledBack(raised, m, repo, prs, memo) ==
    [raised |-> raised, hung |-> FALSE, m |-> m, repo |-> IF raised THEN NoDoc ELSE repo,
     prs |-> IF raised THEN <<>> ELSE prs, memo |-> memo]

\* the outcome of a run(): what it left in the store, the caches and the
\* counters, and whether it raised
Outcome(raised, m, repo, prs, memo) ==
    [raised |-> raised, hung |-> FALSE, m |-> m, repo |-> repo, prs |-> prs, memo |-> memo]

\* an update that writes a whole new document in place of the stored one
SetDictionaryWhole(doc, total, now) ==
    [exists |-> TRUE, total |-> total, ids |-> <<>>, ins |-> now, upd |-> now]

\* LoadRepositoryTask.run on a stored document: update_one with
\* {'$set': {total_pull_requests, fork_count, update_timestamp}}
SetDictionary(doc, total, now) == [doc EXCEPT !.total = total, !.upd = now]

\* LoadRepositoryTask.run; the fail-th query of the run raises
RunLRT(m, fail) ==
    LET m1 == Called(LRT, m, 1)
        memoized == <<LRT, "owner">> \in actorMemo
        m2 == IF memoized THEN m1 ELSE Called(LRT, m1, 1)
    IN IF fail = 1 THEN Outcome(TRUE, m1, repoDoc, prDocs, actorMemo)
       ELSE IF ~repoDoc.exists
       THEN IF ~memoized /\ fail = 2
            THEN Outcome(TRUE, m2, repoDoc, prDocs, actorMemo)
            ELSE Outcome(FALSE, m2,
                         [exists |-> TRUE, total |-> remoteTotal, ids |-> <<>>,
                          ins |-> clock, upd |-> clock],
                         prDocs, actorMemo \cup {<<LRT, "owner">>})
       ELSE Outcome(FALSE, m1, SetDictionary(repoDoc, remoteTotal, clock), prDocs, actorMemo)

\* one page of the pull-request id query: the ids after the cursor
Page(cursor) ==
    [i \in 1..(IF remoteTotal - cursor > PageSize THEN PageSize
               ELSE IF remoteTotal > cursor THEN remoteTotal - cursor ELSE 0) |-> cursor + i]

\* a walk that stops before its first query
WalkPullRequestIdsNone(total, ids, pages) == [ids |-> ids, pages |-> pages, hung |-> FALSE]

\* the loop of LoadRepositoryPullRequestIdsTask.run: pages are appended while
\* total_pull_requests > len(pull_request_ids)
RECURSIVE WalkPullRequestIds(_, _, _)
WalkPullRequestIds(total, ids, pages) ==
    IF total > Len(ids)
    THEN IF Page(Len(ids)) = <<>>
         THEN [ids |-> ids, pages |-> pages + 1, hung |-> TRUE]
         ELSE WalkPullRequestIds(total, ids \o Page(Len(ids)), pages + 1)
    ELSE [ids |-> ids, pages |-> pages, hung |-> FALSE]

\* LoadRepositoryPullRequestIdsTask.run
RunLRPT(m, fail) ==
    LET res == Results(LRPT, m)
        w == WalkPullRequestIds(res.m.cache[LRPT].total, <<>>, 0)
    IN IF res.err THEN Outcome(TRUE, res.m, repoDoc, prDocs, actorMemo)
       ELSE IF res.expected = res.actual THEN Outcome(FALSE, res.m, repoDoc, prDocs, actorMemo)
       ELSE IF fail \in 1..w.pages
       THEN Outcome(TRUE, Called(LRPT, res.m, fail), repoDoc, prDocs, actorMemo)
       ELSE IF w.hung
       THEN [Outcome(FALSE, Called(LRPT, res.m, w.pages), repoDoc, prDocs, actorMemo)
                EXCEPT !.hung = TRUE]
       ELSE Outcome(FALSE, Called(LRPT, res.m, w.pages),
                    [repoDoc EXCEPT !.ids = w.ids, !.upd = clock], prDocs, actorMemo)

InSeq(x, s) == \E i \in 1..Len(s) : s[i] = x

\* an insert that does not look for a stored document first
FoundRequestNever(id, prs) == FALSE

\* _build_and_insert_pull_request: find_one({'id': pull_request_id,
\* 'object_type': 'PULL_REQUEST'}) is not None
FoundRequest(id, prs) == InSeq(id, prs)

\* the loop of LoadPullRequestsTask.run over self.repository.pull_request_ids:
\* a pull request without a stored document is queried, its author is looked
\* up by login (memoized) and the document is inserted
RECURSIVE InsertPullRequests(_, _, _, _, _)
InsertPullRequests(ids, prs, memo, n, fail) ==
    IF ids = <<>> THEN [raised |-> FALSE, prs |-> prs, memo |-> memo, n |-> n]
    ELSE IF FoundRequest(Head(ids), prs) THEN InsertPullRequests(Tail(ids), prs, memo, n, fail)
    ELSE IF fail = n + 1 THEN [raised |-> TRUE, prs |-> prs, memo |-> memo, n |-> n + 1]
    ELSE IF <<LPRT, "author">> \in memo
    THEN InsertPullRequests(Tail(ids), Append(prs, Head(ids)), memo, n + 1, fail)
    ELSE IF fail = n + 2 THEN [raised |-> TRUE, prs |-> prs, memo |-> memo, n |-> n + 2]
    ELSE InsertPullRequests(Tail(ids), Append(prs, Head(ids)),
                            memo \cup {<<LPRT, "author">>}, n + 2, fail)

\* LoadPullRequestsTask.run
RunLPRT(m, fail) ==
    LET res == Results(LPRT, m)
        w == InsertPullRequests(res.m.cache[LPRT].ids, prDocs, actorMemo, 0, fail)
    IN IF res.err THEN Outcome(TRUE, res.m, repoDoc, prDocs, actorMemo)
       ELSE IF res.expected = res.actual THEN Outcome(FALSE, res.m, repoDoc, prDocs, actorMemo)
       ELSE Outcome(w.raised, Called(LPRT, res.m, w.n), repoDoc, w.prs, w.memo)

Run(t, m, fail) ==
    CASE t = LRT -> RunLRT(m, fail)
      [] t = LRPT -> RunLRPT(m, fail)
      [] t = LPRT -> RunLPRT(m, fail)

\* a lookup that stamps the document it reads
FindOneAndStamp(doc, now) == IF doc.exists THEN [doc EXCEPT !.upd = now + 1] ELSE doc

\* what the store holds after the find_one, find and count_documents calls of
\* the oracle methods: what it held before
FindOne(doc, now) == doc

\* luigi.build([t]): the scheduling of the build
Build(t) ==
    /\ ~Active
    /\ clock < MaxClock
    /\ LET s == Schedule(<<t>>, [x \in Tasks |-> "none"],
                         [cache |-> repoCache, n |-> [x \in Tasks |-> 0]])
       IN /\ status' = s.status
          /\ repoCache' = s.m.cache
          /\ calls' = s.m.n
          /\ oracleCalls' = Total(s.m.n)
    /\ requested' = t
    /\ clock' = clock + 1
    /\ repeat' = (t = requested /\ Succeeded /\ fresh)
    /\ fresh' = TRUE
    /\ snapshot' = <<repoDoc, prDocs>>
    /\ early' = FALSE
    /\ aborted' = {}
    /\ repoDoc' = FindOne(repoDoc, clock)
    /\ UNCHANGED <<remoteTotal, prDocs, actorMemo>>
    /\ UNCHANGED <<gwVars, walkVars, actVars, entVars, repVars, comVars, srchVars, qryVars, ccVars>>

\* the tasks that t requires, directly or through other tasks
Upstream(t) ==
    CASE t = LRT -> {}
      [] t = LRPT -> {LRT}
      [] t = LPRT -> {LRPT, LRT}

\* the documents that task d populates are complete in the store
Populated(d) ==
    CASE d = LRT -> repoDoc.exists /\ repoDoc.total = remoteTotal
      [] d = LRPT -> repoDoc.exists /\ Len(repoDoc.ids) = repoDoc.total
      [] d = LPRT -> repoDoc.exists /\ \A i \in 1..Len(repoDoc.ids) : InSeq(repoDoc.ids[i], prDocs)

UpstreamDone(t) == \A d \in Upstream(t) : Populated(d)

\* a run() that catches what the gateway raises and returns
StatusAfterCaught(r) == IF r.hung THEN "hung" ELSE "ran"

\* luigi's worker after run(): an exception that left run() fails the task
StatusAfter(r) == IF r.hung THEN "hung" ELSE IF r.raised THEN "failed" ELSE "ran"

\* luigi's worker runs a pending task whose requirements are done: it checks
\* that they are complete, then calls run()
RunTask(t, fail) ==
    /\ Runnable(t)
    /\ LET chk == CheckDeps(Requires(t), [cache |-> repoCache, n |-> calls])
           r == Run(t, chk.m, fail)
       IN IF chk.err \/ ~chk.ok
          THEN /\ status' = [status EXCEPT ![t] = "failed"]
               /\ repoCache' = chk.m.cache
               /\ calls' = chk.m.n
               /\ oracleCalls' = oracleCalls + Total(chk.m.n) - Total(calls)
               /\ repoDoc' = FindOne(repoDoc, clock)
               /\ UNCHANGED <<prDocs, actorMemo, early, aborted>>
          ELSE /\ status' = [status EXCEPT ![t] = StatusAfter(r)]
               /\ repoCache' = r.m.cache
               /\ calls' = r.m.n
               /\ oracleCalls' = oracleCalls + Total(chk.m.n) - Total(calls)
               /\ repoDoc' = r.repo
               /\ prDocs' = r.prs
               /\ actorMemo' = r.memo
               /\ early' = (early \/ ~UpstreamDone(t))
               /\ aborted' = IF r.raised THEN aborted \cup {t} ELSE aborted
    /\ UNCHANGED <<remoteTotal, requested, clock, fresh, repeat, snapshot>>
    /\ UNCHANGED <<gwVars, walkVars, actVars, entVars, repVars, comVars, srchVars, qryVars, ccVars>>

\* a pull request is opened in the remote repository between two builds
RemoteGrows ==
    /\ ~Active
    /\ remoteTotal < MaxPR
    /\ remoteTotal' = remoteTotal + 1
    /\ fresh' = FALSE
    /\ UNCHANGED <<repoDoc, prDocs, repoCache, actorMemo, status, requested, calls,
                   oracleCalls, clock, repeat, snapshot, early, aborted>>
    /\ UNCHANGED <<gwVars, walkVars, actVars, entVars, repVars, comVars, srchVars, qryVars, ccVars>>

\* the process ends and a new one starts: the task instances and the
\* memoized lookups are gone, the store stays
Restart ==
    /\ ~Active
    /\ \/ \E t \in Tasks : repoCache[t].exists
       \/ actorMemo # {}
    /\ repoCache' = [t \in Tasks |-> NoDoc]
    /\ actorMemo' = {}
    /\ fresh' = FALSE
    /\ UNCHANGED <<remoteTotal, repoDoc, prDocs, status, requested, calls, oracleCalls,
                   clock, repeat, snapshot, early, aborted>>
    /\ UNCHANGED <<gwVars, walkVars, actVars, entVars, repVars, comVars, srchVars, qryVars, ccVars>>

GraphNext ==
    \/ \E t \in Tasks : Build(t)
    \/ \E t \in Tasks, fail \in 0..MaxFailAt : RunTask(t, fail)
    \/ RemoteGrows
    \/ Restart

\* what run_successful() of the requested task answers in the current state
OracleNow(t) == RunSuccessful(t, [cache |-> repoCache, n |-> calls])

\* C30: run_successful() of a task is True only if run_successful() of every
\* task it requires is True and its own expected and actual results are equal;
\* and a task that a build recorded as complete has, as long as nothing ran
\* and the remote did not change, no task above it in the dependency chain
\* whose run_successful() is False.
C30_CompleteOnlyWithClosure ==
    \A t \in Tasks :
        /\ (OracleNow(t).ok /\ ~OracleNow(t).err) =>
               /\ \A i \in 1..Len(Requires(t)) :
                      OracleNow(Requires(t)[i]).ok /\ ~OracleNow(Requires(t)[i]).err
               /\ LET own == Results(t, [cache |-> repoCache, n |-> calls])
                  IN ~own.err /\ own.expected = own.actual
        /\ (status[t] = "complete" /\ fresh /\ \A x \in Tasks : status[x] \in {"none", "complete", "pending"}) =>
               \A d \in Upstream(t) : OracleNow(d).ok /\ ~OracleNow(d).err

\* the build of the last task of the chain finds it complete over a full store
C30_Witness ==
    /\ requested = LPRT /\ status[LPRT] = "complete" /\ fresh
    /\ remoteTotal = MaxPR /\ Len(prDocs) = MaxPR
    /\ OracleNow(LPRT).ok /\ OracleNow(LRT).ok

\* C32: after the run of LoadRepositoryTask updated the total of an existing
\* repository document to the remote totalCount, _get_actual_results() of the
\* task returns the stored, updated total, and the task is satisfied.
C32_OracleSeesOwnWrite ==
    (status[LRT] = "ran" /\ fresh /\ snapshot[1].exists /\ snapshot[1].total # remoteTotal) =>
        LET own == Results(LRT, [cache |-> repoCache, n |-> calls])
        IN /\ own.actual = repoDoc.total
           /\ own.expected = own.actual
           /\ OracleNow(LRT).ok

\* C35: the steps that only evaluate run_successful(), the scheduling of a
\* build and the check of the requirements that ends without a call of run(),
\* leave the stored documents as they were.
C35_OracleReadOnly ==
    [][(\/ clock' # clock
        \/ \E t \in Tasks : status[t] = "pending" /\ status'[t] = "failed" /\ t \notin aborted') =>
           (repoDoc' = repoDoc /\ prDocs' = prDocs)]_vars

\* the check of the requirements of the id-list task found the repository
\* task unsatisfied over a stored document, and run() was not called
C35_Witness ==
    /\ requested = LRPT
    /\ status[LRPT] = "failed"
    /\ LRPT \notin aborted
    /\ status[LRT] = "ran"
    /\ repoDoc.exists
    /\ clock > 1

\* C5: evaluating the completion oracle issues no call to the remote API.
C5_OracleStoreOnly == oracleCalls = 0

\* C6: a task the oracle reports satisfied is not executed; when the direct
\* requirement of the requested task is complete nothing below it is
\* scheduled; and no remote call is made on behalf of a task that the build
\* found complete.
C6_ShortCircuit ==
    \A t \in Tasks :
        status[t] = "complete" =>
            /\ \A i \in 1..Len(Requires(t)) : status[Requires(t)[i]] = "none"
            /\ calls[t] = 0

\* C7: a second run of the graph against the same remote state makes no
\* remote call and leaves the stored documents as they were.
C7_SecondRunIdle ==
    (repeat /\ ~Active) => (Total(calls) = 0 /\ <<repoDoc, prDocs>> = snapshot)

\* C8: once the runs of a build have finished without raising, against a
\* remote that did not change, run_successful() of the requested task is
\* True, and an immediate second build finds the task complete.
C8_CompleteAfterSuccess ==
    /\ (Succeeded /\ fresh) => (~OracleNow(requested).err /\ OracleNow(requested).ok)
    /\ repeat => status[requested] = "complete"

\* C18: a run() starts only after every task it requires, directly or
\* through other tasks, has completed: the documents those tasks populate are
\* complete in the store when run() starts, and a task that was run has its
\* direct requirements complete or run in the same build.
C18_DependencyOrder ==
    /\ ~early
    /\ \A t \in Tasks : status[t] \in {"ran", "hung"} =>
           \A i \in 1..Len(Requires(t)) : status[Requires(t)[i]] \in {"complete", "ran"}

C18_Witness ==
    /\ status[LRT] = "ran"
    /\ status[LRPT] = "ran"
    /\ status[LPRT] = "ran"
    /\ Len(prDocs) = MaxPR

\* C21: no step removes a stored document: a stored REPOSITORY document stays
\* stored and is only updated in place, and the stored PULL_REQUEST documents
\* of one state are still there, in their place, in the next.
C21_NeverDeleted ==
    [][/\ repoDoc.exists => (repoDoc'.exists /\ repoDoc'.ins = repoDoc.ins)
       /\ Len(prDocs') >= Len(prDocs)
       /\ SubSeq(prDocs', 1, Len(prDocs)) = prDocs]_vars

\* the repository document was updated in place after its insert, and the
\* current build added a pull request to the one that was stored
C21_Witness ==
    /\ repoDoc.exists
    /\ repoDoc.upd > repoDoc.ins
    /\ Len(prDocs) = MaxPR
    /\ Len(snapshot[2]) = 1

\* C23: a build of LoadRepositoryTask that finds the stored
\* total_pull_requests equal to the remote totalCount reports the task
\* complete and leaves the document, its counts and its timestamps, as it was.
C23_MatchLeavesDocument ==
    (requested = LRT /\ fresh /\ snapshot[1].exists /\ snapshot[1].total = remoteTotal) =>
        (status[LRT] = "complete" /\ repoDoc = snapshot[1])

C25_IdListSettled ==
    /\ [](( /\ snapshot[1].exists
            /\ snapshot[1].total = Len(snapshot[1].ids)
            /\ repoDoc.total = snapshot[1].total ) =>
               (repoDoc.ids = snapshot[1].ids /\ calls[LRPT] = 0))
    /\ [][(status[LRPT] = "pending" /\ status'[LRPT] = "ran" /\ repoDoc.exists
           /\ repoDoc.total # Len(repoDoc.ids)) =>
              repoDoc'.total = Len(repoDoc'.ids)]_vars

\* a run completed the id list <<1>> of a document whose total had become 2
C25_Witness ==
    /\ status[LRPT] = "ran"
    /\ snapshot[1].exists
    /\ snapshot[1].ids = <<1>>
    /\ repoDoc.total = 2
    /\ repoDoc.ids = <<1, 2>>
    /\ calls[LRPT] > 0

\* C26: a task whose run() raised is failed in that build, and no task that
\* requires it, directly or through other tasks, is reported complete or is
\* run in that build.
C26_FatalPropagation ==
    \A t \in aborted :
        /\ status[t] = "failed"
        /\ \A d \in Tasks : t \in Upstream(d) => status[d] \in {"none", "pending", "failed"}

\* the pull-request id walk raised in a build of LoadPullRequestsTask, after
\* LoadRepositoryTask had run
C26_Witness ==
    /\ requested = LPRT
    /\ aborted = {LRPT}
    /\ status[LRT] = "ran"
    /\ status[LPRT] = "pending"

NumParents == 2
\* the largest total_X a stored document declares
MaxTotal == 3
\* the largest number of items the API returns for one relation
MaxItems == 3

LRIT == "LoadReviewIdsTask"
LCIT == "LoadCommentIdsTask"
LCMT == "LoadCommitIdsTask"
\* its documents are the stored PULL_REQUEST_REVIEW documents
LRCIT == "LoadReviewCommentIdsTask"

WalkTasks == {LRIT, LCIT, LCMT, LRCIT}

Parents == 1..NumParents

\* the for loop visits what find() returns: the documents in insertion order
AllParents == [i \in 1..NumParents |-> i]

RECURSIVE SumOver(_, _)
SumOver(f, n) == IF n = 0 THEN 0 ELSE f[n] + SumOver(f, n - 1)

\* _get_expected_results of the three tasks: the sum of total_X
ExpectedIds == SumOver(wTotal, NumParents)

\* what a document adds to _get_actual_results: the length of its list, or
\* for LoadCommitIdsTask its total when it is marked GIT_RETURNED_LESS
ActualOf(p) ==
    IF wTask = LCMT /\ wMark[p] = "GIT_RETURNED_LESS" THEN wTotal[p] ELSE Len(wIds[p])

ActualIds == SumOver([p \in Parents |-> ActualOf(p)], NumParents)

\* run_successful of the task, its requirement being complete
WalkSatisfied == ExpectedIds = ActualIds

\* the edges of one response: the items after the cursor, a page at most
Edges(p, cursor) ==
    [i \in 1..(IF wRemote[p] - cursor > PageSize THEN PageSize
               ELSE IF wRemote[p] > cursor THEN wRemote[p] - cursor ELSE 0) |-> cursor + i]

\* pageInfo.hasNextPage of the response
HasNextPage(p, cursor) == wRemote[p] > cursor + PageSize

\* the API holds items after the cursor
MoreItems(p, cursor) == wRemote[p] > cursor

\* the guard around the while loop: LoadCommentIdsTask has none
Guarded(task) == task \in {LRIT, LCMT}

\* the condition of the while loop
Continues(task, total, acc, hasNext) ==
    IF task = LCMT THEN hasNext ELSE total > Len(acc)

\* is the loop of the pull request entered at all
Enters(task, p) ==
    IF Guarded(task)
    THEN wTotal[p] > Len(wIds[p]) /\ Continues(task, wTotal[p], <<>>, TRUE)
    ELSE Continues(task, wTotal[p], <<>>, TRUE)

\* a status that does not look at the number of ids
LoadStatusLoaded(total, acc) == "LOADED_SUCCESSFULLY"

\* the status LoadCommitIdsTask stores with the ids
LoadStatus(total, acc) ==
    IF total = Len(acc) THEN "LOADED_SUCCESSFULLY" ELSE "GIT_RETURNED_LESS"

WalkIdle == wPc \in {"idle", "done", "raised"}

\* a run() that raises when its counts differ at the end
EndOfRunStrict(expected, actual) == IF expected = actual THEN "done" ELSE "raised"

\* the end of run(): the actual and the expected count are computed and
\* logged, and run() returns
EndOfRun(expected, actual) == "done"

\* luigi calls run() of the task when its complete() is false
StartRun ==
    /\ WalkIdle
    /\ ~WalkSatisfied
    /\ wPc' = "next"
    /\ wQueue' = AllParents
    /\ wAcc' = <<>>
    /\ wCursor' = 0
    /\ wHasNext' = TRUE
    /\ wFetched' = FALSE
    /\ wRun' = {}
    /\ wBefore' = wIds
    /\ UNCHANGED wSeen
    /\ UNCHANGED <<wTask, wTotal, wRemote, wIds, wMark>>
    /\ UNCHANGED <<gwVars, graphVars, actVars, entVars, repVars, comVars, srchVars, qryVars, ccVars>>

\* the for loop takes the next pull request, or ends the run
NextParent ==
    /\ wPc = "next"
    /\ wAcc' = <<>>
    /\ wCursor' = 0
    /\ wHasNext' = TRUE
    /\ wFetched' = FALSE
    /\ wRun' = {}
    /\ UNCHANGED <<wSeen, wBefore>>
    /\ IF wQueue = <<>>
       THEN /\ wPc' = EndOfRun(ExpectedIds, ActualIds)
            /\ UNCHANGED <<wQueue, wIds>>
       ELSE IF Enters(wTask, Head(wQueue))
       THEN /\ wPc' = "loop"
            /\ UNCHANGED <<wQueue, wIds>>
       ELSE /\ wPc' = "next"
            /\ wQueue' = Tail(wQueue)
            /\ wIds' = IF Guarded(wTask) THEN wIds
                       ELSE [wIds EXCEPT ![Head(wQueue)] = <<>>]
    /\ UNCHANGED <<wTask, wTotal, wRemote, wMark>>
    /\ UNCHANGED <<gwVars, graphVars, actVars, entVars, repVars, comVars, srchVars, qryVars, ccVars>>

\* a walker that stores the list after every page
StoredEachPage(ids, p, acc) == [ids EXCEPT ![p] = acc]

\* the body of the while loop appends to the local list and calls no
\* update_one: the stored list is as it was
StoredInLoop(ids, p, acc) == ids

\* one turn of the while loop: the query is answered, its edges are appended,
\* and when the loop ends the list is written to the document
FetchPage ==
    /\ wPc = "loop"
    /\ LET p == Head(wQueue)
           edges == Edges(p, wCursor)
           acc == wAcc \o edges
           cursor == IF wTask = LCMT
                     THEN (IF edges = <<>> THEN 0 ELSE edges[Len(edges)])
                     ELSE (IF edges = <<>> THEN wCursor ELSE edges[Len(edges)])
           hasNext == IF wTask = LCMT THEN HasNextPage(p, wCursor) ELSE wHasNext
       IN IF Continues(wTask, wTotal[p], acc, hasNext)
          THEN /\ wAcc' = acc
               /\ wCursor' = cursor
               /\ wHasNext' = hasNext
               /\ wFetched' = TRUE
               /\ wRun' = IF edges = <<>> THEN wRun ELSE wRun \cup {wCursor}
               /\ wIds' = StoredInLoop(wIds, p, acc)
               /\ UNCHANGED <<wPc, wQueue, wMark>>
          ELSE /\ wIds' = [wIds EXCEPT ![p] = acc]
               /\ wMark' = IF wTask = LCMT
                           THEN [wMark EXCEPT ![p] = LoadStatus(wTotal[p], acc)]
                           ELSE wMark
               /\ wQueue' = Tail(wQueue)
               /\ wPc' = "next"
               /\ wAcc' = <<>>
               /\ wCursor' = 0
               /\ wHasNext' = TRUE
               /\ wFetched' = FALSE
               /\ wRun' = {}
    /\ UNCHANGED <<wTask, wTotal, wRemote, wSeen, wBefore>>
    /\ UNCHANGED <<gwVars, graphVars, actVars, entVars, repVars, comVars, srchVars, qryVars, ccVars>>

\* execute_query raises once its retries are used up: run() is left
FetchRaises ==
    /\ wPc = "loop"
    /\ wPc' = "raised"
    /\ wQueue' = <<>>
    /\ wAcc' = <<>>
    /\ wCursor' = 0
    /\ wHasNext' = TRUE
    /\ wFetched' = FALSE
    /\ wRun' = {}
    /\ wSeen' = [wSeen EXCEPT ![Head(wQueue)] = @ \cup wRun]
    /\ UNCHANGED <<wTask, wTotal, wRemote, wIds, wMark, wBefore>>
    /\ UNCHANGED <<gwVars, graphVars, actVars, entVars, repVars, comVars, srchVars, qryVars, ccVars>>

WalkNext ==
    \/ StartRun
    \/ NextParent
    \/ FetchPage
    \/ FetchRaises

C33_ArrayWithinTotal ==
    \A p \in Parents : Len(wIds[p]) <= wTotal[p]

\* C34: while a walker is inside the loop of a pull request the stored id list
\* of that pull request is the one it had before the run; a step of a run
\* writes no list but that of the pull request the walker is at; and the step
\* in which the gateway raises writes nothing, so the pull requests processed
\* earlier in the run keep the lists the run stored.
C34_FailureAtomicity ==
    /\ [](wPc = "loop" => \A i \in 1..Len(wQueue) : wIds[wQueue[i]] = wBefore[wQueue[i]])
    /\ [][/\ wPc' = "raised" => wIds' = wIds
          /\ wPc \in {"next", "loop"} =>
                \A p \in Parents : wIds'[p] # wIds[p] => (wQueue # <<>> /\ p = Head(wQueue))]_vars

\* the gateway raised after the first page of the second pull request, whose
\* stored list is the one of before the run, after the run had stored the
\* list of the first
C34_Witness ==
    /\ wPc = "raised"
    /\ wIds[1] # wBefore[1]
    /\ Len(wIds[1]) = wTotal[1]
    /\ wSeen[2] # {}
    /\ wIds[2] = wBefore[2]

\* C9: whenever the oracle of an id-list task reports the task satisfied,
\* every pull request has len(list) = total, unless it carries the
\* GIT_RETURNED_LESS marker.
C9_CardinalityPerDocument ==
    (WalkIdle /\ WalkSatisfied) =>
        \A p \in Parents : Len(wIds[p]) = wTotal[p] \/ wMark[p] = "GIT_RETURNED_LESS"

\* C10: a walker that has been answered issues a further query only while
\* the API holds items after its cursor; when the API has returned fewer
\* items than the declared total and has no more pages, the walker stops.
C10_WalkerStops ==
    (wPc = "loop" /\ wFetched) => MoreItems(Head(wQueue), wCursor)

\* C11: for a review whose total_comments is larger than the number of
\* comment ids the API returns across all pages, LoadReviewCommentIdsTask
\* ends with the returned ids: once every id the API holds has been received
\* the task is no longer inside the loop of that review asking for more.
C11_ReviewCommentsReturnedLess ==
    (wTask = LRCIT /\ wPc = "loop" /\ wFetched /\ wRemote[Head(wQueue)] < wTotal[Head(wQueue)]) =>
        Len(wAcc) < wRemote[Head(wQueue)]

\* C12: LoadCommitIdsTask stores the ids the API returned up to the last
\* page, marked LOADED_SUCCESSFULLY exactly when their number is
\* total_commits and GIT_RETURNED_LESS when it differs; the oracle counts
\* total_commits for a GIT_RETURNED_LESS document, so a run that reached its
\* end leaves the task satisfied.
C12_CommitDegradedMarker ==
    wTask = LCMT =>
        /\ \A p \in Parents :
              /\ wMark[p] = "absent" => wIds[p] = <<>>
              /\ wMark[p] # "absent" => wIds[p] = [i \in 1..wRemote[p] |-> i]
              /\ wMark[p] = "LOADED_SUCCESSFULLY" => Len(wIds[p]) = wTotal[p]
              /\ wMark[p] = "GIT_RETURNED_LESS" =>
                    (Len(wIds[p]) # wTotal[p] /\ ActualOf(p) = wTotal[p])
        /\ wPc = "done" => WalkSatisfied

C12_Witness ==
    /\ wTask = LCMT
    /\ wPc = "done"
    /\ wMark[1] = "GIT_RETURNED_LESS"
    /\ Len(wIds[1]) < wTotal[1]
    /\ wMark[2] = "LOADED_SUCCESSFULLY"
    /\ Len(wIds[2]) = MaxTotal

\* C13: a run that follows a run interrupted in the middle of the pages of
\* a document fetches only the pages that were still missing: it never asks
\* again for a page the interrupted run had received (here for a document
\* whose relation holds exactly the declared total), and no id is stored
\* twice.
C13_ResumesAfterInterrupt ==
    /\ (wPc = "loop" /\ wRemote[Head(wQueue)] = wTotal[Head(wQueue)]) =>
           wCursor \notin wSeen[Head(wQueue)]
    /\ \A p \in Parents : \A i, j \in 1..Len(wIds[p]) : wIds[p][i] = wIds[p][j] => i = j

\* C14: no reachable store state leaves a task unsatisfied for good: whenever
\* no run is executing and the oracle reports the task unsatisfied, the next
\* run finds a document to load, so that it can bring the store closer to a
\* satisfied state.
C14_NoStuckStore ==
    (WalkIdle /\ ~WalkSatisfied) => \E p \in Parents : Enters(wTask, p)

(***************************************************************************)
(* GitActorLookupMixin: _find_actor_by_id and _find_actor_by_login         *)
(***************************************************************************)

\* _type_query calls per actor id and process
MaxActorQueries == 3
\* pages of one user search
MaxSearchPages == 2
\* nodes on one page of a user search
MaxNodes == 2

LPIT == "LoadParticipantIdsTask"
LRXT == "LoadReactionsTask"

\* two tasks of the graph that look actors up
ActorTasks == {LPIT, LRXT}

ActorIds == {"U1", "U2"}

\* two logins that differ in case only
Logins == {"ann", "Ann"}

ActorTypeNames == {"USER", "BOT", "MANNEQUIN", "ORGANIZATION", "ENTERPRISE_USER_ACCOUNT", "UNKNOWN"}

\* what response_json["data"]["node"] can be: an object with a __typename,
\* an object without one, or null
MissingTypename == "<no __typename>"
NullNode == "<null>"
Typenames == {"User", "EnterpriseUserAccount", "Team"}
NodeAnswers == Typenames \cup {MissingTypename, NullNode}

\* str.upper() of the type names
Upper(typename) ==
    CASE typename = "User" -> "USER"
      [] typename = "EnterpriseUserAccount" -> "ENTERPRISEUSERACCOUNT"
      [] typename = "Team" -> "TEAM"

Actor(id, type) == [id |-> id, type |-> type]

NoActor == Actor("", "")

\* answer: what the gateway answered to _type_query; numPages, matchPage and
\* matchId: the pages of the user search, the first of them that holds a node
\* with exactly the login looked for (0: none) and the id of that node
NoLookup == [fn |-> "none", task |-> "none", key |-> "", cached |-> FALSE, queries |-> 0,
             raised |-> "", actor |-> NoActor, answer |-> "", numPages |-> 0,
             matchPage |-> 0, matchId |-> ""]

\* the body of _find_actor_by_id for one answer of the gateway: indexing a
\* null node raises TypeError, which the except KeyError clause lets through
TypeLookup(id, answer) ==
    IF answer = NullNode THEN [raised |-> "TypeError", actor |-> NoActor]
    ELSE IF answer = MissingTypename THEN [raised |-> "", actor |-> Actor(id, "UNKNOWN")]
    ELSE IF Upper(answer) \in ActorTypeNames THEN [raised |-> "", actor |-> Actor(id, Upper(answer))]
    ELSE [raised |-> "", actor |-> Actor(id, "UNKNOWN")]

\* lru_cache keys an entry by the arguments of the call: self and the id
Cached(t, fn, key) == {e \in aCache : e.task = t /\ e.fn = fn /\ e.key = key}

\* task t calls self._find_actor_by_id(id) and the gateway answers
FindActorById(t, id, answer) ==
    /\ Cached(t, "id", id) = {} => aQueries[id] < MaxActorQueries
    /\ IF Cached(t, "id", id) # {}
       THEN /\ aLast' = [NoLookup EXCEPT !.fn = "id", !.task = t, !.key = id, !.cached = TRUE,
                                         !.actor = (CHOOSE e \in Cached(t, "id", id) : TRUE).actor]
            /\ UNCHANGED <<aCache, aQueries>>
       ELSE LET r == TypeLookup(id, answer)
            IN /\ aQueries' = [aQueries EXCEPT ![id] = @ + 1]
               /\ aCache' = IF r.raised # "" THEN aCache
                            ELSE aCache \cup {[task |-> t, fn |-> "id", key |-> id, actor |-> r.actor]}
               /\ aLast' = [NoLookup EXCEPT !.fn = "id", !.task = t, !.key = id, !.queries = 1,
                                            !.raised = r.raised, !.actor = r.actor, !.answer = answer]
    /\ UNCHANGED <<gwVars, graphVars, walkVars, entVars, repVars, comVars, srchVars, qryVars, ccVars>>

\* a node of the user search: the fields of the "... on User" fragment, or
\* an empty object for a node that is not a User
UserNode(login, id) == [typed |-> TRUE, login |-> login, id |-> id]
EmptyNode == [typed |-> FALSE, login |-> "", id |-> ""]

SearchNodes == {UserNode("ann", "U1"), UserNode("Ann", "U2"), EmptyNode}

SeqsUpTo(S, n) == UNION {[1..k -> S] : k \in 0..n}

\* the pages the search can answer with: at least one page, the last one
\* with hasNextPage false
SearchResults == SeqsUpTo(SeqsUpTo(SearchNodes, MaxNodes), MaxSearchPages) \ {<<>>}

\* the for loop over the nodes of a page: user_json["login"] of a node
\* without the field raises KeyError, which ends the loop over the page
RECURSIVE ScanNodes(_, _)
ScanNodes(nodes, login) ==
    IF nodes = <<>> THEN [found |-> FALSE, id |-> ""]
    ELSE IF ~Head(nodes).typed THEN [found |-> FALSE, id |-> ""]
    ELSE IF Head(nodes).login = login THEN [found |-> TRUE, id |-> Head(nodes).id]
    ELSE ScanNodes(Tail(nodes), login)

\* the while loop of _find_actor_by_login from page k on
RECURSIVE SearchFrom(_, _, _)
SearchFrom(pages, k, login) ==
    LET r == ScanNodes(pages[k], login)
    IN IF r.found THEN [actor |-> Actor(r.id, "USER"), queries |-> k]
       ELSE IF k < Len(pages) THEN SearchFrom(pages, k + 1, login)
       ELSE [actor |-> Actor(login, "UNKNOWN"), queries |-> k]

\* the first page that holds a node whose login is exactly login (0: none)
MatchesOn(page, login) == {i \in 1..Len(page) : page[i].typed /\ page[i].login = login}

FirstMatchPage(pages, login) ==
    LET ks == {k \in 1..Len(pages) : MatchesOn(pages[k], login) # {}}
    IN IF ks = {} THEN 0 ELSE CHOOSE k \in ks : \A j \in ks : k <= j

FirstMatchId(pages, login) ==
    LET k == FirstMatchPage(pages, login)
        is == MatchesOn(pages[k], login)
    IN IF k = 0 THEN "" ELSE pages[k][CHOOSE i \in is : \A j \in is : i <= j].id

\* task t calls self._find_actor_by_login(login) and the search answers
FindActorByLogin(t, login, pages) ==
    /\ IF Cached(t, "login", login) # {}
       THEN /\ aLast' = [NoLookup EXCEPT !.fn = "login", !.task = t, !.key = login, !.cached = TRUE,
                                         !.actor = (CHOOSE e \in Cached(t, "login", login) : TRUE).actor]
            /\ UNCHANGED aCache
       ELSE LET r == SearchFrom(pages, 1, login)
            IN /\ aCache' = aCache \cup {[task |-> t, fn |-> "login", key |-> login, actor |-> r.actor]}
               /\ aLast' = [NoLookup EXCEPT !.fn = "login", !.task = t, !.key = login,
                                            !.queries = r.queries, !.actor = r.actor,
                                            !.numPages = Len(pages),
                                            !.matchPage = FirstMatchPage(pages, login),
                                            !.matchId = FirstMatchId(pages, login)]
    /\ UNCHANGED aQueries
    /\ UNCHANGED <<gwVars, graphVars, walkVars, entVars, repVars, comVars, srchVars, qryVars, ccVars>>

\* the process ends: the caches are gone
ActorRestart ==
    /\ aLast # NoLookup
    /\ aCache' = {}
    /\ aQueries' = [i \in ActorIds |-> 0]
    /\ aLast' = NoLookup
    /\ UNCHANGED <<gwVars, graphVars, walkVars, entVars, repVars, comVars, srchVars, qryVars, ccVars>>

ActorNext ==
    \/ \E t \in ActorTasks, id \in ActorIds, answer \in NodeAnswers : FindActorById(t, id, answer)
    \/ ActorRestart

LoginNext ==
    \/ \E t \in ActorTasks, login \in Logins, pages \in SearchResults :
          FindActorByLogin(t, login, pages)
    \/ ActorRestart

\* C15: within one run, the lookups of one actor id through _find_actor_by_id,
\* by one task or by several, cause one resolution call to the gateway in
\* total.
C15_OneResolutionPerActor ==
    \A id \in ActorIds : aQueries[id] <= 1

\* C16: _find_actor_by_id does not raise on an answered query: it issues one
\* query and returns an Actor with the requested id, of type UNKNOWN when the
\* type is unknown or absent.
C16_FindByIdNeverRaises ==
    (aLast.fn = "id" /\ ~aLast.cached) =>
        /\ aLast.raised = ""
        /\ aLast.queries = 1
        /\ aLast.actor.id = aLast.key
        /\ aLast.actor.type \in ActorTypeNames
        /\ aLast.answer \in {"Team", MissingTypename, NullNode} => aLast.actor.type = "UNKNOWN"

\* C17: _find_actor_by_login returns Actor(id of the matching node, USER) as
\* soon as a page holds a node with exactly the login, after one query per
\* page up to that page; without such a node it queries every page and
\* returns Actor(login, UNKNOWN).
C17_FindByLogin ==
    (aLast.fn = "login" /\ ~aLast.cached) =>
        IF aLast.matchPage > 0
        THEN aLast.actor = Actor(aLast.matchId, "USER") /\ aLast.queries = aLast.matchPage
        ELSE aLast.actor = Actor(aLast.key, "UNKNOWN") /\ aLast.queries = aLast.numPages

(***************************************************************************)
(* The entity-document tasks that store one document per listed child id:  *)
(* LoadCommentsTask over the comment_ids of the stored pull requests and   *)
(* LoadReviewCommentsTask over the comment_ids of the stored reviews       *)
(***************************************************************************)

\* a parent document lists at most MaxChildren child ids
MaxChildren == 2
\* run() calls per behaviour
MaxRuns == 3

LCT == "LoadCommentsTask"
LRCT == "LoadReviewCommentsTask"

EntityTasks == {LCT, LRCT}

\* the child ids of parent p, in the order the API lists them
ChildId(p, i) == (p - 1) * MaxChildren + i

\* the nested for loops of run(): the parents in turn, their child ids in turn
RECURSIVE Listed(_)
Listed(ps) == IF ps = <<>> THEN <<>> ELSE eIds[Head(ps)] \o Listed(Tail(ps))

\* _get_expected_results: the sum of len(comment_ids) over the parents
ExpectedChildren == SumOver([p \in Parents |-> Len(eIds[p])], NumParents)

\* _get_actual_results: _get_objects_saved_count of the child object type
ActualChildren == Cardinality(eDocs)

\* LoadCommentsTask.run queries the comment, then looks for its document;
\* _build_and_insert_pull_request_review_comment looks for the document, then
\* queries
QueriesFirst(t) == t = LCT

\* the body of run() over the listed ids; the fail-th query of the run raises
RECURSIVE LoadChildren(_, _, _, _, _, _)
LoadChildren(t, ids, docs, n, stale, fail) ==
    IF ids = <<>> THEN [raised |-> FALSE, docs |-> docs, n |-> n, stale |-> stale]
    ELSE LET id == Head(ids)
             found == id \in docs
         IN IF QueriesFirst(t)
            THEN LET stale1 == IF found THEN stale \cup {id} ELSE stale
                 IN IF fail = n + 1
                    THEN [raised |-> TRUE, docs |-> docs, n |-> n + 1, stale |-> stale1]
                    ELSE LoadChildren(t, Tail(ids), docs \cup {id}, n + 1, stale1, fail)
            ELSE IF found THEN LoadChildren(t, Tail(ids), docs, n, stale, fail)
            ELSE IF fail = n + 1
            THEN [raised |-> TRUE, docs |-> docs, n |-> n + 1, stale |-> stale]
            ELSE LoadChildren(t, Tail(ids), docs \cup {id}, n + 1, stale, fail)

\* luigi calls run() of a task whose run_successful() is False
EntityRun(fail) ==
    /\ eRuns < MaxRuns
    /\ ExpectedChildren # ActualChildren
    /\ LET r == LoadChildren(eTask, Listed(AllParents), eDocs, 0, {}, fail)
       IN /\ eDocs' = r.docs
          /\ eQueries' = r.n
          /\ eRefetched' = r.stale
          /\ eRaised' = r.raised
    /\ eRuns' = eRuns + 1
    /\ UNCHANGED <<eTask, eIds>>
    /\ UNCHANGED <<gwVars, graphVars, walkVars, actVars, repVars, comVars, srchVars, qryVars, ccVars>>

\* between two runs the id-list task stores one more child id for parent p
IdListed(p) ==
    /\ Len(eIds[p]) < MaxChildren
    /\ eIds' = [eIds EXCEPT ![p] = Append(@, ChildId(p, Len(@) + 1))]
    /\ UNCHANGED <<eTask, eDocs, eRuns, eQueries, eRefetched, eRaised>>
    /\ UNCHANGED <<gwVars, graphVars, walkVars, actVars, repVars, comVars, srchVars, qryVars, ccVars>>

EntityNext ==
    \/ \E fail \in 0..(NumParents * MaxChildren) : EntityRun(fail)
    \/ \E p \in Parents : IdListed(p)

\* C20: a run() of an entity-document task queries the remote API for a child
\* id only if no document with that id is in the store.
C20_NoRefetch == eRefetched = {}

(***************************************************************************)
(* LoadRepositoryTask over a collection of REPOSITORY documents: the stored *)
(* document is looked up by the owner and name parameters of the task, and  *)
(* is inserted with the owner login and name of the answer                  *)
(***************************************************************************)

\* spellings of the owner: the parameter of the task and the login the
\* remote API answers with are each one of them
OwnerSpellings == {"Netflix", "netflix"}

\* the id of the remote repository
RemoteId == "R1"

\* _get_repository_by_owner_and_name: find_one({'owner_login': owner, ...})
RepoFind(docs, owner) ==
    IF \E i \in 1..Len(docs) : docs[i].owner_login = owner
    THEN docs[CHOOSE i \in 1..Len(docs) :
                  /\ docs[i].owner_login = owner
                  /\ \A j \in 1..(i - 1) : docs[j].owner_login # owner]
    ELSE NoDoc

\* the repository property of the task instance
RepoProperty(cache, docs, owner) == IF cache.exists THEN cache ELSE RepoFind(docs, owner)

\* update_one({'id': id}, {'$set': {total_pull_requests, update_timestamp}}):
\* the first document with the id is updated
RepoUpdate(docs, id, total, now) ==
    [i \in 1..Len(docs) |->
        IF docs[i].id = id /\ \A j \in 1..(i - 1) : docs[j].id # id
        THEN [docs[i] EXCEPT !.total = total, !.upd = now] ELSE docs[i]]

\* luigi.build([LoadRepositoryTask(owner, name)]): complete() asks the remote
\* for the expected count and the cached repository for the actual one; when
\* they differ run() queries the repository, looks for the stored document
\* and inserts (after the owner's actor lookup) or updates.  fail = 1: the
\* query of complete() raises; 2: the query of run(); 3: the actor lookup
RepoBuild(fail) ==
    /\ rClock < MaxClock
    /\ rClock' = rClock + 1
    /\ rBefore' = rDocs
    /\ rAsked' = rRemote
    /\ LET held == RepoProperty(rCache, rDocs, rOwner)
           actual == IF held.exists THEN held.total ELSE 0
           saved == RepoFind(rDocs, rOwner)
           now == rClock + 1
       IN IF fail = 1
          THEN rStatus' = "failed" /\ UNCHANGED <<rDocs, rCache>>
          ELSE IF rRemote = actual
          THEN rStatus' = "complete" /\ rCache' = held /\ UNCHANGED rDocs
          ELSE IF fail = 2 \/ (fail = 3 /\ ~saved.exists)
          THEN rStatus' = "failed" /\ rCache' = held /\ UNCHANGED rDocs
          ELSE /\ rStatus' = "ran"
               /\ rCache' = held
               /\ rDocs' = IF saved.exists
                           THEN RepoUpdate(rDocs, saved.id, rRemote, now)
                           ELSE Append(rDocs, [exists |-> TRUE, id |-> RemoteId,
                                               owner_login |-> rLogin, total |-> rRemote,
                                               ins |-> now, upd |-> now])
    /\ UNCHANGED <<rOwner, rLogin, rRemote>>
    /\ UNCHANGED <<gwVars, graphVars, walkVars, actVars, entVars, comVars, srchVars, qryVars, ccVars>>

\* a pull request is opened in the remote repository
RepoRemoteGrows ==
    /\ rRemote < MaxPR
    /\ rRemote' = rRemote + 1
    /\ UNCHANGED <<rOwner, rLogin, rDocs, rCache, rClock, rStatus, rBefore, rAsked>>
    /\ UNCHANGED <<gwVars, graphVars, walkVars, actVars, entVars, comVars, srchVars, qryVars, ccVars>>

\* the process ends and a new one starts: the task instance is gone
RepoRestart ==
    /\ rCache.exists
    /\ rCache' = NoDoc
    /\ UNCHANGED <<rOwner, rLogin, rRemote, rDocs, rClock, rStatus, rBefore, rAsked>>
    /\ UNCHANGED <<gwVars, graphVars, walkVars, actVars, entVars, comVars, srchVars, qryVars, ccVars>>

RepoNext ==
    \/ \E fail \in 0..3 : RepoBuild(fail)
    \/ RepoRemoteGrows
    \/ RepoRestart

\* C22: the store holds at most one REPOSITORY document for the repository;
\* a build that found none and whose run() returned left one document with
\* the remote id and the remote totalCount.
C22_OneRepositoryDocument ==
    /\ Len(rDocs) <= 1
    /\ (rStatus = "ran" /\ rBefore = <<>>) =>
           (Len(rDocs) = 1 /\ rDocs[1].id = RemoteId /\ rDocs[1].total = rAsked)

(***************************************************************************)
(* LoadCommitsTask of two repositories over one collection: the builds of  *)
(* the two tasks interleave at the operations on the store                 *)
(***************************************************************************)

\* the commits the remote holds
MaxCommits == 2

Repositories == {"A", "B"}

CommitIds == 1..MaxCommits

\* the commit_id of a stored review whose commit the remote answered as null
NoCommit == 0

\* _is_commit_in_database: find_one({'id': commit_id, 'object_type': 'COMMIT'})
IsCommitInDatabase(c) == \E i \in 1..Len(cDocs) : cDocs[i].id = c

\* _find_unsaved_commits of the task of repository r: the commit ids of its
\* items that are not in the database, a commit_id of None among them
FindUnsavedCommits(r) == {c \in cRefs[r] : ~IsCommitInDatabase(c)}

\* luigi.build of the task of r: complete() compares 0 with the number of
\* unsaved commits
CommitBuild(r) ==
    /\ cPc[r] = "idle"
    /\ cPc' = [cPc EXCEPT ![r] = IF FindUnsavedCommits(r) = {} THEN "done" ELSE "run"]
    /\ UNCHANGED <<cRefs, cDocs, cUnsaved>>
    /\ UNCHANGED <<gwVars, graphVars, walkVars, actVars, entVars, repVars, srchVars, qryVars, ccVars>>

\* run() starts: unsaved_commits = self._find_unsaved_commits()
CommitFind(r) ==
    /\ cPc[r] = "run"
    /\ cUnsaved' = [cUnsaved EXCEPT ![r] = FindUnsavedCommits(r)]
    /\ cPc' = [cPc EXCEPT ![r] = "insert"]
    /\ UNCHANGED <<cRefs, cDocs>>
    /\ UNCHANGED <<gwVars, graphVars, walkVars, actVars, entVars, repVars, srchVars, qryVars, ccVars>>

\* one turn of the for loop: _find_commit queries the commit, sets its
\* repository_id to the id of the task's repository, and it is inserted
CommitInsert(r, c) ==
    /\ cPc[r] = "insert"
    /\ c \in cUnsaved[r]
    /\ cDocs' = Append(cDocs, [id |-> c, repository_id |-> r])
    /\ cUnsaved' = [cUnsaved EXCEPT ![r] = @ \ {c}]
    /\ UNCHANGED <<cRefs, cPc>>
    /\ UNCHANGED <<gwVars, graphVars, walkVars, actVars, entVars, repVars, srchVars, qryVars, ccVars>>

\* the for loop is over: run() returns
CommitReturn(r) ==
    /\ cPc[r] = "insert"
    /\ cUnsaved[r] = {}
    /\ cPc' = [cPc EXCEPT ![r] = "done"]
    /\ UNCHANGED <<cRefs, cDocs, cUnsaved>>
    /\ UNCHANGED <<gwVars, graphVars, walkVars, actVars, entVars, repVars, srchVars, qryVars, ccVars>>

\* the query of _find_commit raises, or _commit_query is handed None and the
\* concatenation raises: run() is left, the task can be built again
CommitRaises(r) ==
    /\ cPc[r] = "insert"
    /\ cUnsaved[r] # {}
    /\ cPc' = [cPc EXCEPT ![r] = "idle"]
    /\ cUnsaved' = [cUnsaved EXCEPT ![r] = {}]
    /\ UNCHANGED <<cRefs, cDocs>>
    /\ UNCHANGED <<gwVars, graphVars, walkVars, actVars, entVars, repVars, srchVars, qryVars, ccVars>>

CommitNext ==
    \/ \E r \in Repositories : CommitBuild(r)
    \/ \E r \in Repositories : CommitFind(r)
    \/ \E r \in Repositories, c \in CommitIds : CommitInsert(r, c)
    \/ \E r \in Repositories : CommitReturn(r)
    \/ \E r \in Repositories : CommitRaises(r)

\* the COMMIT documents the store holds when the task of repository first is
\* built and run to its end before the task of the other repository
OneAfterTheOther(first, second) ==
    {[id |-> c, repository_id |-> first] : c \in cRefs[first]}
        \cup {[id |-> c, repository_id |-> second] : c \in cRefs[second] \ cRefs[first]}

\* C28: when the tasks of the two repositories have both finished, the stored
\* COMMIT documents are those that running one task after the other leaves,
\* one document for a commit that both repositories reference.
C28_IndependentRepositories ==
    (\A r \in Repositories : cPc[r] = "done") =>
        /\ {cDocs[i] : i \in 1..Len(cDocs)} \in {OneAfterTheOther("A", "B"), OneAfterTheOther("B", "A")}
        /\ \A c \in CommitIds : Cardinality({i \in 1..Len(cDocs) : cDocs[i].id = c}) <= 1

C36_AbsentCommitNotCounted ==
    \A r \in Repositories :
        /\ NoCommit \notin FindUnsavedCommits(r)
        /\ NoCommit \notin cUnsaved[r]
        /\ (\A c \in cRefs[r] \ {NoCommit} : IsCommitInDatabase(c)) => FindUnsavedCommits(r) = {}

(***************************************************************************)
(* _find_actor_by_login, one query at a time, over answers of which some   *)
(* lack the keys the loop reads                                            *)
(***************************************************************************)

\* the user queries one call is followed for
MaxSearchQueries == 4
\* the pages of one search
MaxAnswers == 3

\* what the gateway can answer to the user query of one cursor position: a
\* page with a node of exactly the login, a page without one, an object
\* whose "data" lacks "search" or "pageInfo", and "data" or "search" null
PageKinds == {"match", "miss", "nokeys", "null"}

\* the finite searches: at least one page; hasNextPage is false on the last
SearchAnswers == SeqsUpTo(PageKinds, MaxAnswers) \ {<<>>}

\* a task calls self._find_actor_by_login(login): has_next_page = True,
\* user_cursor = None
SearchCall(pages) ==
    /\ sPc # "loop"
    /\ sPages' = pages
    /\ sCursor' = 0
    /\ sQueries' = 0
    /\ sPc' = "loop"
    /\ UNCHANGED <<gwVars, graphVars, walkVars, actVars, entVars, repVars, comVars, qryVars, ccVars>>

\* one turn of the while loop: the query of the current cursor is executed;
\* a KeyError leaves the try block before or after has_next_page and
\* user_cursor are assigned, a TypeError leaves the function
SearchTurn ==
    /\ sPc = "loop"
    /\ sQueries < MaxSearchQueries
    /\ sQueries' = sQueries + 1
    /\ LET kind == sPages[sCursor + 1]
       IN CASE kind = "nokeys" -> UNCHANGED <<sCursor, sPc>>
            [] kind = "null" -> sPc' = "raised" /\ UNCHANGED sCursor
            [] kind = "match" -> sPc' = "returned" /\ sCursor' = sCursor + 1
            [] kind = "miss" -> /\ sCursor' = sCursor + 1
                                /\ sPc' = IF sCursor + 1 < Len(sPages) THEN "loop" ELSE "returned"
    /\ UNCHANGED sPages
    /\ UNCHANGED <<gwVars, graphVars, walkVars, actVars, entVars, repVars, comVars, qryVars, ccVars>>

SearchNext ==
    \/ \E pages \in SearchAnswers : SearchCall(pages)
    \/ SearchTurn

\* C31: a call of _find_actor_by_login over a finite search asks for each
\* page at most once, so it ends after at most as many queries as the search
\* has pages, also when an answer lacks the keys of the page information.
C31_LoginSearchTerminates == sQueries <= Len(sPages)

(***************************************************************************)
(* LoadRepositoriesByQueryTask next to LoadRepositoryTask over one         *)
(* collection                                                              *)
(***************************************************************************)

\* the repositories of the remote
NumRepos == 3

\* LoadRepositoriesByQueryTask._get_expected_results: repositoryCount of the
\* search
ExpectedRepositories == Cardinality(qMatched)

\* LoadRepositoriesByQueryTask._get_actual_results:
\* count_documents({'object_type': 'REPOSITORY'})
ActualRepositories == Cardinality(qDocs)

QuerySatisfied == ExpectedRepositories = ActualRepositories

\* luigi.build of the task: complete, or run() over the edges of the search
\* in their order, each looked up by owner and name and inserted when it has
\* no document; failAt > 0: the query that would answer with that edge raises
QueryBuild(failAt) ==
    /\ failAt > 0 => (failAt \in qMatched /\ ~QuerySatisfied)
    /\ IF QuerySatisfied
       THEN /\ qStatus' = "complete"
            /\ UNCHANGED qDocs
       ELSE IF failAt = 0
       THEN /\ qStatus' = "ran"
            /\ qDocs' = qDocs \cup qMatched
       ELSE /\ qStatus' = "failed"
            /\ qDocs' = qDocs \cup {r \in qMatched : r < failAt}
    /\ UNCHANGED qMatched
    /\ UNCHANGED <<gwVars, graphVars, walkVars, actVars, entVars, repVars, comVars, srchVars, ccVars>>

\* LoadRepositoryTask of one repository is built and inserts its document
LoadOne(r) ==
    /\ r \notin qDocs
    /\ qDocs' = qDocs \cup {r}
    /\ UNCHANGED <<qMatched, qStatus>>
    /\ UNCHANGED <<gwVars, graphVars, walkVars, actVars, entVars, repVars, comVars, srchVars, ccVars>>

\* a repository starts to match the query
MatchGrows(r) ==
    /\ r \notin qMatched
    /\ qMatched' = qMatched \cup {r}
    /\ UNCHANGED <<qDocs, qStatus>>
    /\ UNCHANGED <<gwVars, graphVars, walkVars, actVars, entVars, repVars, comVars, srchVars, ccVars>>

QueryNext ==
    \/ \E failAt \in 0..NumRepos : QueryBuild(failAt)
    \/ \E r \in 1..NumRepos : LoadOne(r)
    \/ \E r \in 1..NumRepos : MatchGrows(r)

\* C37: LoadRepositoriesByQueryTask is satisfied exactly when every
\* repository its query matches has a REPOSITORY document, whatever other
\* REPOSITORY documents the collection holds.
C37_QuerySatisfiedExactly ==
    QuerySatisfied <=> qMatched \subseteq qDocs

(***************************************************************************)
(* LoadCommitCommentsTask over the comment_ids of the stored commits       *)
(***************************************************************************)

\* the stored commits of the repository
NumCommits == 3
\* the comment ids one commit lists
MaxComments == 2

\* the node id of the n-th comment of a commit
CommentNode(c, n) == [kind |-> "CommitComment", commit |-> c, n |-> n]

\* the comment ids the stored commits list, in the order of the two for loops
RECURSIVE ListedFrom(_, _)
ListedFrom(c, n) ==
    IF c > NumCommits THEN <<>>
    ELSE IF n > kIds[c] THEN ListedFrom(c + 1, 1)
    ELSE <<CommentNode(c, n)>> \o ListedFrom(c, n + 1)

ListedComments == ListedFrom(1, 1)

\* the answer to node(id: ...) { ... on CommitComment { id ... } }: the
\* fields of the fragment when the node is a commit comment, an empty object
\* when it is of another type
NodeAnswer(id) == IF id.kind = "CommitComment" THEN id ELSE [kind |-> "", commit |-> 0, n |-> 0]

\* the id that run() passes to _commit_comment_query for a listed comment:
\* the id of the commit of the outer loop
QueriedId(comment) == [kind |-> "Commit", commit |-> comment.commit, n |-> 0]

\* the two for loops of run() from the listed comment at the head of list
\* on; fail = 1: execute_query raises on the next query
RECURSIVE LoadCommitComments(_, _, _, _)
LoadCommitComments(list, docs, asked, fail) ==
    IF list = <<>> THEN [docs |-> docs, asked |-> asked, status |-> "ran"]
    ELSE IF Head(list) \in docs THEN LoadCommitComments(Tail(list), docs, asked, fail)
    ELSE LET q == QueriedId(Head(list))
             node == NodeAnswer(q)
         IN IF fail = 1
            THEN [docs |-> docs, asked |-> asked \cup {q}, status |-> "failed"]
            ELSE IF node.kind = ""
            THEN [docs |-> docs, asked |-> asked \cup {q}, status |-> "KeyError"]
            ELSE LoadCommitComments(Tail(list), docs \cup {node}, asked \cup {q},
                                    IF fail = 0 THEN 0 ELSE fail - 1)

\* LoadCommitCommentsTask._get_expected_results: the sum of len(comment_ids)
ExpectedComments == Len(ListedComments)

\* LoadCommitCommentsTask._get_actual_results: the stored COMMIT_COMMENT
\* documents of the repository
ActualComments == Cardinality(kDocs)

\* luigi.build of the task, its requirement being complete
CommentsBuild(fail) ==
    /\ IF ExpectedComments = ActualComments
       THEN /\ fail = 0
            /\ kStatus' = "complete"
            /\ kAsked' = {}
            /\ UNCHANGED kDocs
       ELSE LET r == LoadCommitComments(ListedComments, kDocs, {}, fail)
            IN /\ fail > 0 => r.status = "failed"
               /\ kStatus' = r.status
               /\ kAsked' = r.asked
               /\ kDocs' = r.docs
    /\ UNCHANGED kIds
    /\ UNCHANGED <<gwVars, graphVars, walkVars, actVars, entVars, repVars, comVars, srchVars, qryVars>>

\* LoadCommitCommentIdsTask stores one more comment id on a commit
CommentListed(c) ==
    /\ kIds[c] < MaxComments
    /\ kIds' = [kIds EXCEPT ![c] = @ + 1]
    /\ UNCHANGED <<kDocs, kAsked, kStatus>>
    /\ UNCHANGED <<gwVars, graphVars, walkVars, actVars, entVars, repVars, comVars, srchVars, qryVars>>

CommentsNext ==
    \/ \E fail \in 0..MaxComments : CommentsBuild(fail)
    \/ \E c \in 1..NumCommits : CommentListed(c)

\* C38: every query of a run of LoadCommitCommentsTask asks for a listed
\* comment id, and a build of the task over listed comment ids without
\* documents, answered by the gateway, ends with a COMMIT_COMMENT document
\* for every listed id and with the expected count equal to the actual one.
C38_CommitCommentsLoaded ==
    /\ \A q \in kAsked : \E i \in 1..Len(ListedComments) : ListedComments[i] = q
    /\ kStatus \in {"ran", "complete"} =>
           /\ \A i \in 1..Len(ListedComments) : ListedComments[i] \in kDocs
           /\ ExpectedComments = ActualComments
    /\ kStatus # "KeyError"

(***************************************************************************)
(* The specifications                                                      *)
(***************************************************************************)

\* one execute_query call at a time
InitGateway ==
    /\ gwStack = <<>>
    /\ gwBudget = 0
    /\ gwRequests = 0
    /\ gwShort = 0
    /\ gwLong = 0
    /\ gwOutcome = "idle"
    /\ gwLast = [kind |-> "none", counter |-> 0, slept |-> 0]
    /\ gwOnlyStatus = TRUE
    /\ remoteTotal = 0
    /\ repoDoc = NoDoc
    /\ prDocs = <<>>
    /\ repoCache = [t \in Tasks |-> NoDoc]
    /\ actorMemo = {}
    /\ status = [t \in Tasks |-> "none"]
    /\ requested = "none"
    /\ calls = [t \in Tasks |-> 0]
    /\ oracleCalls = 0
    /\ clock = 0
    /\ fresh = FALSE
    /\ repeat = FALSE
    /\ snapshot = <<NoDoc, <<>>>>
    /\ early = FALSE
    /\ aborted = {}
    /\ wTask = LRIT
    /\ wTotal = [p \in Parents |-> 0]
    /\ wRemote = [p \in Parents |-> 0]
    /\ wIds = [p \in Parents |-> <<>>]
    /\ wMark = [p \in Parents |-> "absent"]
    /\ wPc = "idle"
    /\ wQueue = <<>>
    /\ wAcc = <<>>
    /\ wCursor = 0
    /\ wHasNext = TRUE
    /\ wFetched = FALSE
    /\ wRun = {}
    /\ wSeen = [p \in Parents |-> {}]
    /\ wBefore = [p \in Parents |-> <<>>]
    /\ aCache = {}
    /\ aQueries = [i \in ActorIds |-> 0]
    /\ aLast = NoLookup
    /\ eTask = LCT
    /\ eIds = [p \in Parents |-> <<>>]
    /\ eDocs = {}
    /\ eRuns = 0
    /\ eQueries = 0
    /\ eRefetched = {}
    /\ eRaised = FALSE
    /\ rOwner = "Netflix"
    /\ rLogin = "Netflix"
    /\ rRemote = 0
    /\ rDocs = <<>>
    /\ rCache = NoDoc
    /\ rClock = 0
    /\ rStatus = "none"
    /\ rBefore = <<>>
    /\ rAsked = 0
    /\ cRefs = [r \in Repositories |-> {}]
    /\ cDocs = <<>>
    /\ cPc = [r \in Repositories |-> "idle"]
    /\ cUnsaved = [r \in Repositories |-> {}]
    /\ sPages = <<>>
    /\ sCursor = 0
    /\ sQueries = 0
    /\ sPc = "returned"
    /\ qMatched = {}
    /\ qDocs = {}
    /\ qStatus = "none"
    /\ kIds = [c \in 1..NumCommits |-> 0]
    /\ kDocs = {}
    /\ kAsked = {}
    /\ kStatus = "none"

SpecGateway == InitGateway /\ [][GwNext]_vars

\* builds of the task chain against an empty store
InitGraph ==
    /\ gwStack = <<>>
    /\ gwBudget = 0
    /\ gwRequests = 0
    /\ gwShort = 0
    /\ gwLong = 0
    /\ gwOutcome = "idle"
    /\ gwLast = [kind |-> "none", counter |-> 0, slept |-> 0]
    /\ gwOnlyStatus = TRUE
    /\ remoteTotal \in 0..MaxPR
    /\ repoDoc = NoDoc
    /\ prDocs = <<>>
    /\ repoCache = [t \in Tasks |-> NoDoc]
    /\ actorMemo = {}
    /\ status = [t \in Tasks |-> "none"]
    /\ requested = "none"
    /\ calls = [t \in Tasks |-> 0]
    /\ oracleCalls = 0
    /\ clock = 0
    /\ fresh = FALSE
    /\ repeat = FALSE
    /\ snapshot = <<NoDoc, <<>>>>
    /\ early = FALSE
    /\ aborted = {}
    /\ wTask = LRIT
    /\ wTotal = [p \in Parents |-> 0]
    /\ wRemote = [p \in Parents |-> 0]
    /\ wIds = [p \in Parents |-> <<>>]
    /\ wMark = [p \in Parents |-> "absent"]
    /\ wPc = "idle"
    /\ wQueue = <<>>
    /\ wAcc = <<>>
    /\ wCursor = 0
    /\ wHasNext = TRUE
    /\ wFetched = FALSE
    /\ wRun = {}
    /\ wSeen = [p \in Parents |-> {}]
    /\ wBefore = [p \in Parents |-> <<>>]
    /\ aCache = {}
    /\ aQueries = [i \in ActorIds |-> 0]
    /\ aLast = NoLookup
    /\ eTask = LCT
    /\ eIds = [p \in Parents |-> <<>>]
    /\ eDocs = {}
    /\ eRuns = 0
    /\ eQueries = 0
    /\ eRefetched = {}
    /\ eRaised = FALSE
    /\ rOwner = "Netflix"
    /\ rLogin = "Netflix"
    /\ rRemote = 0
    /\ rDocs = <<>>
    /\ rCache = NoDoc
    /\ rClock = 0
    /\ rStatus = "none"
    /\ rBefore = <<>>
    /\ rAsked = 0
    /\ cRefs = [r \in Repositories |-> {}]
    /\ cDocs = <<>>
    /\ cPc = [r \in Repositories |-> "idle"]
    /\ cUnsaved = [r \in Repositories |-> {}]
    /\ sPages = <<>>
    /\ sCursor = 0
    /\ sQueries = 0
    /\ sPc = "returned"
    /\ qMatched = {}
    /\ qDocs = {}
    /\ qStatus = "none"
    /\ kIds = [c \in 1..NumCommits |-> 0]
    /\ kDocs = {}
    /\ kAsked = {}
    /\ kStatus = "none"

SpecGraph == InitGraph /\ [][GraphNext]_vars

\* runs of one id-list task over the pull requests that LoadPullRequestsTask
\* stored: each declares a total and has empty lists and no load status
InitWalk ==
    /\ gwStack = <<>>
    /\ gwBudget = 0
    /\ gwRequests = 0
    /\ gwShort = 0
    /\ gwLong = 0
    /\ gwOutcome = "idle"
    /\ gwLast = [kind |-> "none", counter |-> 0, slept |-> 0]
    /\ gwOnlyStatus = TRUE
    /\ remoteTotal = 0
    /\ repoDoc = NoDoc
    /\ prDocs = <<>>
    /\ repoCache = [t \in Tasks |-> NoDoc]
    /\ actorMemo = {}
    /\ status = [t \in Tasks |-> "none"]
    /\ requested = "none"
    /\ calls = [t \in Tasks |-> 0]
    /\ oracleCalls = 0
    /\ clock = 0
    /\ fresh = FALSE
    /\ repeat = FALSE
    /\ snapshot = <<NoDoc, <<>>>>
    /\ early = FALSE
    /\ aborted = {}
    /\ wTask \in WalkTasks
    /\ wTotal \in [Parents -> 0..MaxTotal]
    /\ wRemote \in [Parents -> 0..MaxItems]
    /\ wIds = [p \in Parents |-> <<>>]
    /\ wMark = [p \in Parents |-> "absent"]
    /\ wPc = "idle"
    /\ wQueue = <<>>
    /\ wAcc = <<>>
    /\ wCursor = 0
    /\ wHasNext = TRUE
    /\ wFetched = FALSE
    /\ wRun = {}
    /\ wSeen = [p \in Parents |-> {}]
    /\ wBefore = [p \in Parents |-> <<>>]
    /\ aCache = {}
    /\ aQueries = [i \in ActorIds |-> 0]
    /\ aLast = NoLookup
    /\ eTask = LCT
    /\ eIds = [p \in Parents |-> <<>>]
    /\ eDocs = {}
    /\ eRuns = 0
    /\ eQueries = 0
    /\ eRefetched = {}
    /\ eRaised = FALSE
    /\ rOwner = "Netflix"
    /\ rLogin = "Netflix"
    /\ rRemote = 0
    /\ rDocs = <<>>
    /\ rCache = NoDoc
    /\ rClock = 0
    /\ rStatus = "none"
    /\ rBefore = <<>>
    /\ rAsked = 0
    /\ cRefs = [r \in Repositories |-> {}]
    /\ cDocs = <<>>
    /\ cPc = [r \in Repositories |-> "idle"]
    /\ cUnsaved = [r \in Repositories |-> {}]
    /\ sPages = <<>>
    /\ sCursor = 0
    /\ sQueries = 0
    /\ sPc = "returned"
    /\ qMatched = {}
    /\ qDocs = {}
    /\ qStatus = "none"
    /\ kIds = [c \in 1..NumCommits |-> 0]
    /\ kDocs = {}
    /\ kAsked = {}
    /\ kStatus = "none"

SpecWalk == InitWalk /\ [][WalkNext]_vars

\* lookups of actors by the tasks of one process, by id (SpecActor) and by
\* login (SpecLogin)
InitActor ==
    /\ gwStack = <<>>
    /\ gwBudget = 0
    /\ gwRequests = 0
    /\ gwShort = 0
    /\ gwLong = 0
    /\ gwOutcome = "idle"
    /\ gwLast = [kind |-> "none", counter |-> 0, slept |-> 0]
    /\ gwOnlyStatus = TRUE
    /\ remoteTotal = 0
    /\ repoDoc = NoDoc
    /\ prDocs = <<>>
    /\ repoCache = [t \in Tasks |-> NoDoc]
    /\ actorMemo = {}
    /\ status = [t \in Tasks |-> "none"]
    /\ requested = "none"
    /\ calls = [t \in Tasks |-> 0]
    /\ oracleCalls = 0
    /\ clock = 0
    /\ fresh = FALSE
    /\ repeat = FALSE
    /\ snapshot = <<NoDoc, <<>>>>
    /\ early = FALSE
    /\ aborted = {}
    /\ wTask = LRIT
    /\ wTotal = [p \in Parents |-> 0]
    /\ wRemote = [p \in Parents |-> 0]
    /\ wIds = [p \in Parents |-> <<>>]
    /\ wMark = [p \in Parents |-> "absent"]
    /\ wPc = "idle"
    /\ wQueue = <<>>
    /\ wAcc = <<>>
    /\ wCursor = 0
    /\ wHasNext = TRUE
    /\ wFetched = FALSE
    /\ wRun = {}
    /\ wSeen = [p \in Parents |-> {}]
    /\ wBefore = [p \in Parents |-> <<>>]
    /\ aCache = {}
    /\ aQueries = [i \in ActorIds |-> 0]
    /\ aLast = NoLookup
    /\ eTask = LCT
    /\ eIds = [p \in Parents |-> <<>>]
    /\ eDocs = {}
    /\ eRuns = 0
    /\ eQueries = 0
    /\ eRefetched = {}
    /\ eRaised = FALSE
    /\ rOwner = "Netflix"
    /\ rLogin = "Netflix"
    /\ rRemote = 0
    /\ rDocs = <<>>
    /\ rCache = NoDoc
    /\ rClock = 0
    /\ rStatus = "none"
    /\ rBefore = <<>>
    /\ rAsked = 0
    /\ cRefs = [r \in Repositories |-> {}]
    /\ cDocs = <<>>
    /\ cPc = [r \in Repositories |-> "idle"]
    /\ cUnsaved = [r \in Repositories |-> {}]
    /\ sPages = <<>>
    /\ sCursor = 0
    /\ sQueries = 0
    /\ sPc = "returned"
    /\ qMatched = {}
    /\ qDocs = {}
    /\ qStatus = "none"
    /\ kIds = [c \in 1..NumCommits |-> 0]
    /\ kDocs = {}
    /\ kAsked = {}
    /\ kStatus = "none"

SpecActor == InitActor /\ [][ActorNext]_vars

SpecLogin == InitActor /\ [][LoginNext]_vars

\* the runs of one entity-document task over an empty store
InitEntity ==
    /\ gwStack = <<>>
    /\ gwBudget = 0
    /\ gwRequests = 0
    /\ gwShort = 0
    /\ gwLong = 0
    /\ gwOutcome = "idle"
    /\ gwLast = [kind |-> "none", counter |-> 0, slept |-> 0]
    /\ gwOnlyStatus = TRUE
    /\ remoteTotal = 0
    /\ repoDoc = NoDoc
    /\ prDocs = <<>>
    /\ repoCache = [t \in Tasks |-> NoDoc]
    /\ actorMemo = {}
    /\ status = [t \in Tasks |-> "none"]
    /\ requested = "none"
    /\ calls = [t \in Tasks |-> 0]
    /\ oracleCalls = 0
    /\ clock = 0
    /\ fresh = FALSE
    /\ repeat = FALSE
    /\ snapshot = <<NoDoc, <<>>>>
    /\ early = FALSE
    /\ aborted = {}
    /\ wTask = LRIT
    /\ wTotal = [p \in Parents |-> 0]
    /\ wRemote = [p \in Parents |-> 0]
    /\ wIds = [p \in Parents |-> <<>>]
    /\ wMark = [p \in Parents |-> "absent"]
    /\ wPc = "idle"
    /\ wQueue = <<>>
    /\ wAcc = <<>>
    /\ wCursor = 0
    /\ wHasNext = TRUE
    /\ wFetched = FALSE
    /\ wRun = {}
    /\ wSeen = [p \in Parents |-> {}]
    /\ wBefore = [p \in Parents |-> <<>>]
    /\ aCache = {}
    /\ aQueries = [i \in ActorIds |-> 0]
    /\ aLast = NoLookup
    /\ eTask \in EntityTasks
    /\ eIds = [p \in Parents |-> <<>>]
    /\ eDocs = {}
    /\ eRuns = 0
    /\ eQueries = 0
    /\ eRefetched = {}
    /\ eRaised = FALSE
    /\ rOwner = "Netflix"
    /\ rLogin = "Netflix"
    /\ rRemote = 0
    /\ rDocs = <<>>
    /\ rCache = NoDoc
    /\ rClock = 0
    /\ rStatus = "none"
    /\ rBefore = <<>>
    /\ rAsked = 0
    /\ cRefs = [r \in Repositories |-> {}]
    /\ cDocs = <<>>
    /\ cPc = [r \in Repositories |-> "idle"]
    /\ cUnsaved = [r \in Repositories |-> {}]
    /\ sPages = <<>>
    /\ sCursor = 0
    /\ sQueries = 0
    /\ sPc = "returned"
    /\ qMatched = {}
    /\ qDocs = {}
    /\ qStatus = "none"
    /\ kIds = [c \in 1..NumCommits |-> 0]
    /\ kDocs = {}
    /\ kAsked = {}
    /\ kStatus = "none"

SpecEntity == InitEntity /\ [][EntityNext]_vars

\* the builds of one LoadRepositoryTask over an empty store
InitRepo ==
    /\ gwStack = <<>>
    /\ gwBudget = 0
    /\ gwRequests = 0
    /\ gwShort = 0
    /\ gwLong = 0
    /\ gwOutcome = "idle"
    /\ gwLast = [kind |-> "none", counter |-> 0, slept |-> 0]
    /\ gwOnlyStatus = TRUE
    /\ remoteTotal = 0
    /\ repoDoc = NoDoc
    /\ prDocs = <<>>
    /\ repoCache = [t \in Tasks |-> NoDoc]
    /\ actorMemo = {}
    /\ status = [t \in Tasks |-> "none"]
    /\ requested = "none"
    /\ calls = [t \in Tasks |-> 0]
    /\ oracleCalls = 0
    /\ clock = 0
    /\ fresh = FALSE
    /\ repeat = FALSE
    /\ snapshot = <<NoDoc, <<>>>>
    /\ early = FALSE
    /\ aborted = {}
    /\ wTask = LRIT
    /\ wTotal = [p \in Parents |-> 0]
    /\ wRemote = [p \in Parents |-> 0]
    /\ wIds = [p \in Parents |-> <<>>]
    /\ wMark = [p \in Parents |-> "absent"]
    /\ wPc = "idle"
    /\ wQueue = <<>>
    /\ wAcc = <<>>
    /\ wCursor = 0
    /\ wHasNext = TRUE
    /\ wFetched = FALSE
    /\ wRun = {}
    /\ wSeen = [p \in Parents |-> {}]
    /\ wBefore = [p \in Parents |-> <<>>]
    /\ aCache = {}
    /\ aQueries = [i \in ActorIds |-> 0]
    /\ aLast = NoLookup
    /\ eTask = LCT
    /\ eIds = [p \in Parents |-> <<>>]
    /\ eDocs = {}
    /\ eRuns = 0
    /\ eQueries = 0
    /\ eRefetched = {}
    /\ eRaised = FALSE
    /\ rOwner \in OwnerSpellings
    /\ rLogin \in OwnerSpellings
    /\ rRemote \in 0..MaxPR
    /\ rDocs = <<>>
    /\ rCache = NoDoc
    /\ rClock = 0
    /\ rStatus = "none"
    /\ rBefore = <<>>
    /\ rAsked = 0
    /\ cRefs = [r \in Repositories |-> {}]
    /\ cDocs = <<>>
    /\ cPc = [r \in Repositories |-> "idle"]
    /\ cUnsaved = [r \in Repositories |-> {}]
    /\ sPages = <<>>
    /\ sCursor = 0
    /\ sQueries = 0
    /\ sPc = "returned"
    /\ qMatched = {}
    /\ qDocs = {}
    /\ qStatus = "none"
    /\ kIds = [c \in 1..NumCommits |-> 0]
    /\ kDocs = {}
    /\ kAsked = {}
    /\ kStatus = "none"

SpecRepo == InitRepo /\ [][RepoNext]_vars

\* the tasks of two repositories over an empty collection
InitCommit ==
    /\ gwStack = <<>>
    /\ gwBudget = 0
    /\ gwRequests = 0
    /\ gwShort = 0
    /\ gwLong = 0
    /\ gwOutcome = "idle"
    /\ gwLast = [kind |-> "none", counter |-> 0, slept |-> 0]
    /\ gwOnlyStatus = TRUE
    /\ remoteTotal = 0
    /\ repoDoc = NoDoc
    /\ prDocs = <<>>
    /\ repoCache = [t \in Tasks |-> NoDoc]
    /\ actorMemo = {}
    /\ status = [t \in Tasks |-> "none"]
    /\ requested = "none"
    /\ calls = [t \in Tasks |-> 0]
    /\ oracleCalls = 0
    /\ clock = 0
    /\ fresh = FALSE
    /\ repeat = FALSE
    /\ snapshot = <<NoDoc, <<>>>>
    /\ early = FALSE
    /\ aborted = {}
    /\ wTask = LRIT
    /\ wTotal = [p \in Parents |-> 0]
    /\ wRemote = [p \in Parents |-> 0]
    /\ wIds = [p \in Parents |-> <<>>]
    /\ wMark = [p \in Parents |-> "absent"]
    /\ wPc = "idle"
    /\ wQueue = <<>>
    /\ wAcc = <<>>
    /\ wCursor = 0
    /\ wHasNext = TRUE
    /\ wFetched = FALSE
    /\ wRun = {}
    /\ wSeen = [p \in Parents |-> {}]
    /\ wBefore = [p \in Parents |-> <<>>]
    /\ aCache = {}
    /\ aQueries = [i \in ActorIds |-> 0]
    /\ aLast = NoLookup
    /\ eTask = LCT
    /\ eIds = [p \in Parents |-> <<>>]
    /\ eDocs = {}
    /\ eRuns = 0
    /\ eQueries = 0
    /\ eRefetched = {}
    /\ eRaised = FALSE
    /\ rOwner = "Netflix"
    /\ rLogin = "Netflix"
    /\ rRemote = 0
    /\ rDocs = <<>>
    /\ rCache = NoDoc
    /\ rClock = 0
    /\ rStatus = "none"
    /\ rBefore = <<>>
    /\ rAsked = 0
    /\ cRefs \in [Repositories -> SUBSET (CommitIds \cup {NoCommit})]
    /\ cDocs = <<>>
    /\ cPc = [r \in Repositories |-> "idle"]
    /\ cUnsaved = [r \in Repositories |-> {}]
    /\ sPages = <<>>
    /\ sCursor = 0
    /\ sQueries = 0
    /\ sPc = "returned"
    /\ qMatched = {}
    /\ qDocs = {}
    /\ qStatus = "none"
    /\ kIds = [c \in 1..NumCommits |-> 0]
    /\ kDocs = {}
    /\ kAsked = {}
    /\ kStatus = "none"

SpecCommit == InitCommit /\ [][CommitNext]_vars

\* a call of _find_actor_by_login has just started
InitSearch ==
    /\ gwStack = <<>>
    /\ gwBudget = 0
    /\ gwRequests = 0
    /\ gwShort = 0
    /\ gwLong = 0
    /\ gwOutcome = "idle"
    /\ gwLast = [kind |-> "none", counter |-> 0, slept |-> 0]
    /\ gwOnlyStatus = TRUE
    /\ remoteTotal = 0
    /\ repoDoc = NoDoc
    /\ prDocs = <<>>
    /\ repoCache = [t \in Tasks |-> NoDoc]
    /\ actorMemo = {}
    /\ status = [t \in Tasks |-> "none"]
    /\ requested = "none"
    /\ calls = [t \in Tasks |-> 0]
    /\ oracleCalls = 0
    /\ clock = 0
    /\ fresh = FALSE
    /\ repeat = FALSE
    /\ snapshot = <<NoDoc, <<>>>>
    /\ early = FALSE
    /\ aborted = {}
    /\ wTask = LRIT
    /\ wTotal = [p \in Parents |-> 0]
    /\ wRemote = [p \in Parents |-> 0]
    /\ wIds = [p \in Parents |-> <<>>]
    /\ wMark = [p \in Parents |-> "absent"]
    /\ wPc = "idle"
    /\ wQueue = <<>>
    /\ wAcc = <<>>
    /\ wCursor = 0
    /\ wHasNext = TRUE
    /\ wFetched = FALSE
    /\ wRun = {}
    /\ wSeen = [p \in Parents |-> {}]
    /\ wBefore = [p \in Parents |-> <<>>]
    /\ aCache = {}
    /\ aQueries = [i \in ActorIds |-> 0]
    /\ aLast = NoLookup
    /\ eTask = LCT
    /\ eIds = [p \in Parents |-> <<>>]
    /\ eDocs = {}
    /\ eRuns = 0
    /\ eQueries = 0
    /\ eRefetched = {}
    /\ eRaised = FALSE
    /\ rOwner = "Netflix"
    /\ rLogin = "Netflix"
    /\ rRemote = 0
    /\ rDocs = <<>>
    /\ rCache = NoDoc
    /\ rClock = 0
    /\ rStatus = "none"
    /\ rBefore = <<>>
    /\ rAsked = 0
    /\ cRefs = [r \in Repositories |-> {}]
    /\ cDocs = <<>>
    /\ cPc = [r \in Repositories |-> "idle"]
    /\ cUnsaved = [r \in Repositories |-> {}]
    /\ sPages \in SearchAnswers
    /\ sCursor = 0
    /\ sQueries = 0
    /\ sPc = "loop"
    /\ qMatched = {}
    /\ qDocs = {}
    /\ qStatus = "none"
    /\ kIds = [c \in 1..NumCommits |-> 0]
    /\ kDocs = {}
    /\ kAsked = {}
    /\ kStatus = "none"

SpecSearch == InitSearch /\ [][SearchNext]_vars

\* the query matches some repositories, the collection is empty
InitQuery ==
    /\ gwStack = <<>>
    /\ gwBudget = 0
    /\ gwRequests = 0
    /\ gwShort = 0
    /\ gwLong = 0
    /\ gwOutcome = "idle"
    /\ gwLast = [kind |-> "none", counter |-> 0, slept |-> 0]
    /\ gwOnlyStatus = TRUE
    /\ remoteTotal = 0
    /\ repoDoc = NoDoc
    /\ prDocs = <<>>
    /\ repoCache = [t \in Tasks |-> NoDoc]
    /\ actorMemo = {}
    /\ status = [t \in Tasks |-> "none"]
    /\ requested = "none"
    /\ calls = [t \in Tasks |-> 0]
    /\ oracleCalls = 0
    /\ clock = 0
    /\ fresh = FALSE
    /\ repeat = FALSE
    /\ snapshot = <<NoDoc, <<>>>>
    /\ early = FALSE
    /\ aborted = {}
    /\ wTask = LRIT
    /\ wTotal = [p \in Parents |-> 0]
    /\ wRemote = [p \in Parents |-> 0]
    /\ wIds = [p \in Parents |-> <<>>]
    /\ wMark = [p \in Parents |-> "absent"]
    /\ wPc = "idle"
    /\ wQueue = <<>>
    /\ wAcc = <<>>
    /\ wCursor = 0
    /\ wHasNext = TRUE
    /\ wFetched = FALSE
    /\ wRun = {}
    /\ wSeen = [p \in Parents |-> {}]
    /\ wBefore = [p \in Parents |-> <<>>]
    /\ aCache = {}
    /\ aQueries = [i \in ActorIds |-> 0]
    /\ aLast = NoLookup
    /\ eTask = LCT
    /\ eIds = [p \in Parents |-> <<>>]
    /\ eDocs = {}
    /\ eRuns = 0
    /\ eQueries = 0
    /\ eRefetched = {}
    /\ eRaised = FALSE
    /\ rOwner = "Netflix"
    /\ rLogin = "Netflix"
    /\ rRemote = 0
    /\ rDocs = <<>>
    /\ rCache = NoDoc
    /\ rClock = 0
    /\ rStatus = "none"
    /\ rBefore = <<>>
    /\ rAsked = 0
    /\ cRefs = [r \in Repositories |-> {}]
    /\ cDocs = <<>>
    /\ cPc = [r \in Repositories |-> "idle"]
    /\ cUnsaved = [r \in Repositories |-> {}]
    /\ sPages = <<>>
    /\ sCursor = 0
    /\ sQueries = 0
    /\ sPc = "returned"
    /\ qMatched \in SUBSET (1..NumRepos)
    /\ qDocs = {}
    /\ qStatus = "none"
    /\ kIds = [c \in 1..NumCommits |-> 0]
    /\ kDocs = {}
    /\ kAsked = {}
    /\ kStatus = "none"

SpecQuery == InitQuery /\ [][QueryNext]_vars

\* stored commits that list comment ids, no comment stored
InitComments ==
    /\ gwStack = <<>>
    /\ gwBudget = 0
    /\ gwRequests = 0
    /\ gwShort = 0
    /\ gwLong = 0
    /\ gwOutcome = "idle"
    /\ gwLast = [kind |-> "none", counter |-> 0, slept |-> 0]
    /\ gwOnlyStatus = TRUE
    /\ remoteTotal = 0
    /\ repoDoc = NoDoc
    /\ prDocs = <<>>
    /\ repoCache = [t \in Tasks |-> NoDoc]
    /\ actorMemo = {}
    /\ status = [t \in Tasks |-> "none"]
    /\ requested = "none"
    /\ calls = [t \in Tasks |-> 0]
    /\ oracleCalls = 0
    /\ clock = 0
    /\ fresh = FALSE
    /\ repeat = FALSE
    /\ snapshot = <<NoDoc, <<>>>>
    /\ early = FALSE
    /\ aborted = {}
    /\ wTask = LRIT
    /\ wTotal = [p \in Parents |-> 0]
    /\ wRemote = [p \in Parents |-> 0]
    /\ wIds = [p \in Parents |-> <<>>]
    /\ wMark = [p \in Parents |-> "absent"]
    /\ wPc = "idle"
    /\ wQueue = <<>>
    /\ wAcc = <<>>
    /\ wCursor = 0
    /\ wHasNext = TRUE
    /\ wFetched = FALSE
    /\ wRun = {}
    /\ wSeen = [p \in Parents |-> {}]
    /\ wBefore = [p \in Parents |-> <<>>]
    /\ aCache = {}
    /\ aQueries = [i \in ActorIds |-> 0]
    /\ aLast = NoLookup
    /\ eTask = LCT
    /\ eIds = [p \in Parents |-> <<>>]
    /\ eDocs = {}
    /\ eRuns = 0
    /\ eQueries = 0
    /\ eRefetched = {}
    /\ eRaised = FALSE
    /\ rOwner = "Netflix"
    /\ rLogin = "Netflix"
    /\ rRemote = 0
    /\ rDocs = <<>>
    /\ rCache = NoDoc
    /\ rClock = 0
    /\ rStatus = "none"
    /\ rBefore = <<>>
    /\ rAsked = 0
    /\ cRefs = [r \in Repositories |-> {}]
    /\ cDocs = <<>>
    /\ cPc = [r \in Repositories |-> "idle"]
    /\ cUnsaved = [r \in Repositories |-> {}]
    /\ sPages = <<>>
    /\ sCursor = 0
    /\ sQueries = 0
    /\ sPc = "returned"
    /\ qMatched = {}
    /\ qDocs = {}
    /\ qStatus = "none"
    /\ kIds \in [1..NumCommits -> 0..MaxComments]
    /\ kDocs = {}
    /\ kAsked = {}
    /\ kStatus = "none"

SpecComments == InitComments /\ [][CommentsNext]_vars

====
